---- MODULE Spec2Model ----
(***************************************************************************)
(* A model of ColorPy's colour-model conversions (colorpy/colormodels.py): *)
(* the ColorConverter object, the clipping / gamma / quantization pipeline *)
(* and the hex-string codec.                                               *)
(*                                                                         *)
(* Python floats are modelled by decimal floating-point numbers with eight *)
(* significant digits: a record [m, e] stands for m * 10^e, with m = 0 or  *)
(* 10^7 <= |m| < 10^8.  Every arithmetic operation rounds its result to    *)
(* that format, as the hardware rounds to 53 bits.  Statements that the    *)
(* code can only meet up to the rounding of floating-point arithmetic are  *)
(* stated up to a few units in the last place (Close).                     *)
(*                                                                         *)
(* Colour vectors are arrays of floats, as rgb_from_xyz produces them.     *)
(* The converter is configured with positive bit depths and positive gamma *)
(* exponents; init_bit_depth and init_gamma_correction check neither.  Its *)
(* white points are chromaticities of non-zero luminance, which can be     *)
(* scaled to Y = 1.                                                        *)
(***************************************************************************)
EXTENDS Integers, Sequences, FiniteSets, TLC

----------------------------------------------------------------------------
(* Floating-point arithmetic.                                              *)

Limb   == 10^4
MantHi == Limb * Limb
MantLo == MantHi \div 10

Abs(n) == IF n < 0 THEN -n ELSE n
Sgn(n) == IF n < 0 THEN -1 ELSE IF n = 0 THEN 0 ELSE 1
Min2(a, b) == IF a <= b THEN a ELSE b
Max2(a, b) == IF a >= b THEN a ELSE b

Zero == [m |-> 0, e |-> 0]

\* |n| / 10 rounded to nearest, ties to even, with the sign of n.
RoundDiv10(n) ==
    LET a == Abs(n)
        q == a \div 10
        r == a % 10
        up == r > 5 \/ (r = 5 /\ q % 2 = 1)
    IN  Sgn(n) * (IF up THEN q + 1 ELSE q)

\* The float m * 10^e, mantissa brought to eight digits.
RECURSIVE Norm(_, _)
Norm(m, e) ==
    IF m = 0 THEN Zero
    ELSE IF Abs(m) >= MantHi THEN Norm(RoundDiv10(m), e + 1)
    ELSE IF Abs(m) < MantLo THEN Norm(m * 10, e - 1)
    ELSE [m |-> m, e |-> e]

\* float(n) for an integer n.
FromInt(n) == Norm(n, 0)

\* -1, 0 or 1 as a < b, a = b, a > b.
FCmp(a, b) ==
    LET sa == Sgn(a.m)
        sb == Sgn(b.m)
    IN  IF sa # sb THEN (IF sa < sb THEN -1 ELSE 1)
        ELSE IF sa = 0 THEN 0
        ELSE IF a.e # b.e THEN (IF a.e < b.e THEN -sa ELSE sa)
        ELSE IF a.m < b.m THEN -1
        ELSE IF a.m > b.m THEN 1 ELSE 0

FLt(a, b) == FCmp(a, b) < 0
FLe(a, b) == FCmp(a, b) <= 0
FGt(a, b) == FCmp(a, b) > 0
FMin(a, b) == IF FLe(a, b) THEN a ELSE b
FMax(a, b) == IF FLe(a, b) THEN b ELSE a

FNeg(a) == [m |-> -a.m, e |-> a.e]
FAbs(a) == [m |-> Abs(a.m), e |-> a.e]

\* n with its last k decimal digits dropped (towards zero).
ShiftR(n, k) == IF k >= 10 THEN 0 ELSE Sgn(n) * (Abs(n) \div (10^k))

\* a + b, computed with one guard digit.
FAdd(a, b) ==
    IF a.m = 0 THEN b
    ELSE IF b.m = 0 THEN a
    ELSE IF a.e >= b.e
         THEN Norm(a.m * 10 + ShiftR(b.m * 10, a.e - b.e), a.e - 1)
         ELSE Norm(b.m * 10 + ShiftR(a.m * 10, b.e - a.e), b.e - 1)

FSub(a, b) == FAdd(a, FNeg(b))

\* a * b: the leading nine digits of the sixteen-digit product of the
\* mantissas, taken limb by limb so that no intermediate exceeds 2^31.
FMul(a, b) ==
    IF a.m = 0 \/ b.m = 0 THEN Zero
    ELSE LET x  == Abs(a.m)
             y  == Abs(b.m)
             x1 == x \div Limb
             x0 == x % Limb
             y1 == y \div Limb
             y0 == y % Limb
             mid == x1 * y0 + x0 * y1
             lo  == x0 * y0
             hi  == x1 * y1 * 10 + (mid * 10 + (lo * 10) \div Limb) \div Limb
         IN  Norm(Sgn(a.m) * Sgn(b.m) * hi, a.e + b.e + 7)

\* Long division: the quotient digits of r / y, k more digits after acc.
RECURSIVE LongDiv(_, _, _, _)
LongDiv(r, y, acc, k) ==
    IF k = 0 THEN acc
    ELSE LongDiv((r * 10) % y, y, acc * 10 + (r * 10) \div y, k - 1)

\* a / b for b # 0.
FDiv(a, b) ==
    IF a.m = 0 THEN Zero
    ELSE LET x == Abs(a.m)
             y == Abs(b.m)
             q == LongDiv(x % y, y, x \div y, 8)
         IN  Norm(Sgn(a.m) * Sgn(b.m) * q, a.e - b.e - 8)

\* The float nearest to the fraction n / d (a decimal literal of the source).
Lit(n, d) == FDiv(FromInt(n), FromInt(d))

One == FromInt(1)

\* x^n for an integer n >= 1, by repeated squaring as far as it goes.
RECURSIVE PowN(_, _)
PowN(x, n) ==
    IF n = 1 THEN x
    ELSE IF n % 2 = 0 THEN LET h == PowN(x, n \div 2) IN FMul(h, h)
    ELSE FMul(x, PowN(x, n - 1))

\* The largest mantissa r in lo..hi with (r * 10^-7)^q <= f.
RECURSIVE RootSearch(_, _, _, _)
RootSearch(lo, hi, f, q) ==
    IF lo >= hi THEN lo
    ELSE LET mid == (lo + hi + 1) \div 2
         IN  IF FLe(PowN([m |-> mid, e |-> -7], q), f)
             THEN RootSearch(mid, hi, f, q)
             ELSE RootSearch(lo, mid - 1, f, q)

\* x^(1/q) for x > 0: x = f * 10^(q*k) with 1 <= f < 10^q, and the root of f
\* lies in [1, 10).
RootN(x, q) ==
    IF q = 1 THEN x
    ELSE LET s == x.e + 7
             k == s \div q
             j == s % q
             f == [m |-> x.m, e |-> j - 7]
             r == RootSearch(MantLo, MantHi - 1, f, q)
         IN  [m |-> r, e |-> k - 7]

\* math.pow(x, p/q) for x > 0 and integers p, q >= 1.
Pow(x, p, q) == PowN(RootN(x, q), p)

\* round(x): the nearest integer, ties to even.
RoundInt(x) ==
    IF x.e >= 0 THEN x.m * 10^(x.e)
    ELSE IF -x.e >= 9 THEN 0
    ELSE LET d == 10^(-x.e)
             a == Abs(x.m)
             q == a \div d
             r == a % d
             up == 2 * r > d \/ (2 * r = d /\ q % 2 = 1)
         IN  Sgn(x.m) * (IF up THEN q + 1 ELSE q)

----------------------------------------------------------------------------
(* Exponents.  The exponent handed to math.pow is kept as the fraction p/q  *)
(* it stands for (2.2 = 11/5, 2.4 = 12/5).                                  *)

Frac(p, q) == [p |-> p, q |-> q]

\* 1.0 / g
Recip(g) == [p |-> g.q, q |-> g.p]

\* math.pow(x, g) for x > 0
FPow(x, g) == Pow(x, g.p, g.q)

----------------------------------------------------------------------------
(* Colour vectors: numpy arrays of three components.                       *)

rgb_color(r, g, b) == <<r, g, b>>
irgb_color(ir, ig, ib) == <<ir, ig, ib>>

Max3(v) == FMax(v[1], FMax(v[2], v[3]))
Min3(v) == FMin(v[1], FMin(v[2], v[3]))

\* rgb *= scaling
Scale3(v, scaling) ==
    <<FMul(v[1], scaling), FMul(v[2], scaling), FMul(v[3], scaling)>>

----------------------------------------------------------------------------
(* Gamma correction.                                                       *)

GAMMA_CORRECT_POWER == 0
GAMMA_CORRECT_SRGB  == 1

STANDARD_GAMMA == Frac(11, 5)

simple_gamma_invert(x, gamma_exponent) ==
    IF FLe(x, Zero) THEN x ELSE FPow(x, Recip(gamma_exponent))

simple_gamma_correct(x, gamma_exponent) ==
    IF FLe(x, Zero) THEN x ELSE FPow(x, gamma_exponent)

srgb_gamma_invert(x) ==
    IF FLe(x, Lit(304, 100000))
    THEN FMul(Lit(1292, 100), x)
    ELSE FSub(FMul(Lit(1055, 1000), FPow(x, Recip(Frac(12, 5)))), Lit(55, 1000))

srgb_gamma_correct(x) ==
    IF FLe(x, Lit(3928, 100000))
    THEN FDiv(x, Lit(1292, 100))
    ELSE FPow(FDiv(FAdd(x, Lit(55, 1000)), Lit(1055, 1000)), Frac(12, 5))

----------------------------------------------------------------------------
(* Colour clipping methods.                                                *)

CLIP_CLAMP_TO_ZERO == 0
CLIP_ADD_WHITE     == 1

----------------------------------------------------------------------------
(* The hex-string codec.  A string is a sequence of one-character strings. *)

HexDigits == <<"0", "1", "2", "3", "4", "5", "6", "7",
               "8", "9", "A", "B", "C", "D", "E", "F">>

LowerHex == <<"a", "b", "c", "d", "e", "f">>

Whitespace == {" "}

RECURSIVE HexOf(_)
\* The hexadecimal digits of n >= 0, uppercase, no padding ('%X').
HexOf(n) ==
    IF n < 16 THEN <<HexDigits[n + 1]>>
    ELSE Append(HexOf(n \div 16), HexDigits[(n % 16) + 1])

\* '%02X' % n: sign, then the digits padded with zeros to a width of two.
Fmt02XUnpadded(n) == IF n < 0 THEN <<"-">> \o HexOf(-n) ELSE HexOf(n)
Fmt02X(n) ==
    LET digits == HexOf(Abs(n))
    IN  IF n < 0 THEN <<"-">> \o digits
        ELSE IF Len(digits) < 2 THEN <<"0">> \o digits
        ELSE digits

\* min (255, max (0, irgb [index]))
Clamp255Unclamped(channel) == channel
Clamp255(channel) == Min2(255, Max2(0, channel))

\* '#%02X%02X%02X' % (irgb [0], irgb [1], irgb [2])
HexString(irgb) ==
    <<"#">> \o Fmt02X(irgb[1]) \o Fmt02X(irgb[2]) \o Fmt02X(irgb[3])

\* The caller's array after the clamping loop, and the string returned.
StringOfClamped(clamped) == [irgb |-> clamped, str |-> HexString(clamped)]

irgb_string_from_irgb(irgb) ==
    StringOfClamped(<<Clamp255(irgb[1]), Clamp255(irgb[2]), Clamp255(irgb[3])>>)

IsHexChar(c) ==
    \/ \E k \in 1..16 : HexDigits[k] = c
    \/ \E k \in 1..6 : LowerHex[k] = c

HexVal(c) ==
    IF \E k \in 1..16 : HexDigits[k] = c
    THEN (CHOOSE k \in 1..16 : HexDigits[k] = c) - 1
    ELSE (CHOOSE k \in 1..6 : LowerHex[k] = c) + 9

RECURSIVE StripLeft(_)
StripLeft(s) ==
    IF s # <<>> /\ Head(s) \in Whitespace THEN StripLeft(Tail(s)) ELSE s

RECURSIVE StripRight(_)
StripRight(s) ==
    IF s # <<>> /\ s[Len(s)] \in Whitespace
    THEN StripRight(SubSeq(s, 1, Len(s) - 1)) ELSE s

RECURSIVE DigitsValue(_)
DigitsValue(s) ==
    IF s = <<>> THEN 0
    ELSE 16 * DigitsValue(SubSeq(s, 1, Len(s) - 1)) + HexVal(s[Len(s)])

\* int(s, 16): surrounding whitespace is skipped and one sign is accepted
\* before the digits; anything else raises ValueError.
int16(s) ==
    LET t == StripRight(StripLeft(s))
        signed == t # <<>> /\ Head(t) \in {"+", "-"}
        d == IF signed THEN Tail(t) ELSE t
    IN  IF d # <<>> /\ \A k \in 1..Len(d) : IsHexChar(d[k])
        THEN [err |-> "none",
              val |-> IF signed /\ Head(t) = "-" THEN -DigitsValue(d)
                      ELSE DigitsValue(d)]
        ELSE [err |-> "ValueError", val |-> 0]

irgb_from_irgb_string(irgb_string) ==
    IF Len(irgb_string) # 7 THEN [err |-> "ValueError", irgb |-> <<>>]
    ELSE IF irgb_string[1] # "#" THEN [err |-> "ValueError", irgb |-> <<>>]
    ELSE LET ir == int16(SubSeq(irgb_string, 2, 3))
             ig == int16(SubSeq(irgb_string, 4, 5))
             ib == int16(SubSeq(irgb_string, 6, 7))
         IN  IF ir.err # "none" \/ ig.err # "none" \/ ib.err # "none"
             THEN [err |-> "ValueError", irgb |-> <<>>]
             ELSE [err |-> "none", irgb |-> irgb_color(ir.val, ig.val, ib.val)]

----------------------------------------------------------------------------
(* xyz colours, and the linear algebra behind the rgb <-> xyz matrices.    *)
(* A matrix is the tuple of its rows.                                      *)

xyz_color(x, y, z) == <<x, y, z>>

\* xyz_color (x, y): z is left out and defaults to 1 - (x + y).
xyz_color_xy(x, y) == xyz_color(x, y, FSub(One, FAdd(x, y)))

luv_color(L, u, v) == <<L, u, v>>
lab_color(L, a, b) == <<L, a, b>>

\* xyz_normalize_Y1 (xyz): the array after the call.
xyz_normalize_Y1(xyz) ==
    IF xyz[2] # Zero THEN Scale3(xyz, FDiv(One, xyz[2])) ELSE xyz

SRGB_Red   == xyz_color_xy(Lit(640, 1000), Lit(330, 1000))
SRGB_Green == xyz_color_xy(Lit(300, 1000), Lit(600, 1000))
SRGB_Blue  == xyz_color_xy(Lit(150, 1000), Lit(60, 1000))
SRGB_White == xyz_color_xy(Lit(3127, 10000), Lit(3290, 10000))

SMPTE_Red   == xyz_color_xy(Lit(630, 1000), Lit(340, 1000))
SMPTE_Green == xyz_color_xy(Lit(310, 1000), Lit(595, 1000))
SMPTE_Blue  == xyz_color_xy(Lit(155, 1000), Lit(70, 1000))

WhiteC == xyz_color_xy(Lit(3101, 10000), Lit(3162, 10000))

\* numpy.column_stack ((c1, c2, c3))
column_stack(c1, c2, c3) ==
    <<<<c1[1], c2[1], c3[1]>>,
      <<c1[2], c2[2], c3[2]>>,
      <<c1[3], c2[3], c3[3]>>>>

Dot3(row, v) ==
    FAdd(FAdd(FMul(row[1], v[1]), FMul(row[2], v[2])), FMul(row[3], v[3]))

\* numpy.dot (matrix, v)
Dot(matrix, v) == <<Dot3(matrix[1], v), Dot3(matrix[2], v), Dot3(matrix[3], v)>>

\* numpy.linalg.solve: Gaussian elimination with partial pivoting on the
\* rows of [A | b], raising LinAlgError when a pivot is exactly zero.
Singular == [err |-> "LinAlgError", x |-> <<>>]

Augmented(A, b) ==
    <<<<A[1][1], A[1][2], A[1][3], b[1]>>,
      <<A[2][1], A[2][2], A[2][3], b[2]>>,
      <<A[3][1], A[3][2], A[3][3], b[3]>>>>

SwapRows(M, i, j) ==
    <<M[IF i = 1 THEN j ELSE IF j = 1 THEN i ELSE 1],
      M[IF i = 2 THEN j ELSE IF j = 2 THEN i ELSE 2],
      M[IF i = 3 THEN j ELSE IF j = 3 THEN i ELSE 3]>>

\* The first row, from row k on, with the largest magnitude in column k.
PivotRow1(M) ==
    IF FLt(FAbs(M[1][1]), FAbs(M[2][1]))
    THEN (IF FLt(FAbs(M[2][1]), FAbs(M[3][1])) THEN 3 ELSE 2)
    ELSE (IF FLt(FAbs(M[1][1]), FAbs(M[3][1])) THEN 3 ELSE 1)

PivotRow2(M) == IF FLt(FAbs(M[2][2]), FAbs(M[3][2])) THEN 3 ELSE 2

\* row - factor * pivot
RowSub(row, pivot, factor) ==
    <<FSub(row[1], FMul(factor, pivot[1])),
      FSub(row[2], FMul(factor, pivot[2])),
      FSub(row[3], FMul(factor, pivot[3])),
      FSub(row[4], FMul(factor, pivot[4]))>>

Eliminate1(M) ==
    <<M[1],
      RowSub(M[2], M[1], FDiv(M[2][1], M[1][1])),
      RowSub(M[3], M[1], FDiv(M[3][1], M[1][1]))>>

Eliminate2(M) ==
    <<M[1], M[2], RowSub(M[3], M[2], FDiv(M[3][2], M[2][2]))>>

BackRow1(M, x2, x3) ==
    <<FDiv(FSub(FSub(M[1][4], FMul(M[1][2], x2)), FMul(M[1][3], x3)), M[1][1]),
      x2, x3>>

BackRow2(M, x3) ==
    BackRow1(M, FDiv(FSub(M[2][4], FMul(M[2][3], x3)), M[2][2]), x3)

BackSubstitute(M) == BackRow2(M, FDiv(M[3][4], M[3][3]))

SolveColumn3(M) ==
    IF M[3][3] = Zero THEN Singular
    ELSE [err |-> "none", x |-> BackSubstitute(M)]

SolveColumn2(M) ==
    IF M[2][2] = Zero THEN Singular ELSE SolveColumn3(Eliminate2(M))

SolvePivot2(M) == SolveColumn2(SwapRows(M, 2, PivotRow2(M)))

SolveColumn1(M) ==
    IF M[1][1] = Zero THEN Singular ELSE SolvePivot2(Eliminate1(M))

SolvePivot1(M) == SolveColumn1(SwapRows(M, 1, PivotRow1(M)))

solve(A, b) == SolvePivot1(Augmented(A, b))

\* numpy.linalg.inv: the columns are the solutions of A x = e_k.
InverseOfRows(c1, c2, c3) ==
    IF c1.err # "none" THEN [err |-> c1.err, m |-> <<>>]
    ELSE [err |-> "none", m |-> <<c1.x, c2.x, c3.x>>]

InverseOf(c1, c2, c3) ==
    IF c1.err # "none" THEN [err |-> c1.err, m |-> <<>>]
    ELSE [err |-> "none", m |-> column_stack(c1.x, c2.x, c3.x)]

inv(A) ==
    InverseOf(solve(A, <<One, Zero, Zero>>),
              solve(A, <<Zero, One, Zero>>),
              solve(A, <<Zero, Zero, One>>))

----------------------------------------------------------------------------
(* Luminance, the u'v' chromaticities and the Lab function.                *)

L_LUM_A      == FromInt(116)
L_LUM_B      == FromInt(16)
L_LUM_C      == Lit(90329630, 100000)
L_LUM_CUTOFF == Lit(8856, 1000000)

L_luminance_dark(y) ==
    IF FGt(y, L_LUM_CUTOFF)
    THEN FSub(FMul(L_LUM_A, Pow(y, 1, 3)), L_LUM_B)
    ELSE Zero

L_luminance(y) ==
    IF FGt(y, L_LUM_CUTOFF)
    THEN FSub(FMul(L_LUM_A, Pow(y, 1, 3)), L_LUM_B)
    ELSE FMul(L_LUM_C, y)

L_luminance_inverse(L) ==
    IF FLe(L, FMul(L_LUM_C, L_LUM_CUTOFF))
    THEN FDiv(L, L_LUM_C)
    ELSE PowN(FDiv(FAdd(L, L_LUM_B), L_LUM_A), 3)

\* A division by a variable: its outcome and, when there is one, its value.
ZeroDivision == "ZeroDivisionError"

DivErr(divisor) == IF divisor = Zero THEN ZeroDivision ELSE "none"

Quot(a, divisor) == IF divisor = Zero THEN Zero ELSE FDiv(a, divisor)

\* The first error of two steps.
Raised(err, r) == [err |-> IF err # "none" THEN err ELSE r.err, xyz |-> r.xyz]

\* x + 15.0 * y + 3.0 * z
UvDenominator(xyz) ==
    FAdd(FAdd(xyz[1], FMul(FromInt(15), xyz[2])), FMul(FromInt(3), xyz[3]))

UvPrimesOverUnguarded(xyz, w_denom) ==
    [err |-> DivErr(w_denom),
     uv |-> <<Quot(FMul(FromInt(4), xyz[1]), w_denom),
              Quot(FMul(FromInt(9), xyz[2]), w_denom)>>]

UvPrimesOver(xyz, w_denom) ==
    IF w_denom # Zero
    THEN [err |-> DivErr(w_denom),
          uv |-> <<Quot(FMul(FromInt(4), xyz[1]), w_denom),
                   Quot(FMul(FromInt(9), xyz[2]), w_denom)>>]
    ELSE [err |-> "none", uv |-> <<Zero, Zero>>]

\* uv_primes (xyz): the pair (u_prime, v_prime)
uv_primes(xyz) == UvPrimesOver(xyz, UvDenominator(xyz))

XyzOfDenominator(y, x, w_denom) ==
    xyz_color(x, y,
              FDiv(FSub(FSub(w_denom, x), FMul(FromInt(15), y)), FromInt(3)))

XyzOfPrimes(u_prime, y, w_denom) ==
    XyzOfDenominator(y, FMul(FMul(Lit(25, 100), u_prime), w_denom), w_denom)

uv_primes_inverse(u_prime, v_prime, y) ==
    IF v_prime # Zero
    THEN [err |-> DivErr(v_prime),
          xyz |-> XyzOfPrimes(u_prime, y, Quot(FMul(FromInt(9), y), v_prime))]
    ELSE [err |-> "none", xyz |-> xyz_color(Zero, Zero, Zero)]

LAB_F_A == Lit(77870370, 10000000)
LAB_F_B == FDiv(FromInt(16), FromInt(116))

Lab_f(t) ==
    IF FGt(t, L_LUM_CUTOFF) THEN Pow(t, 1, 3)
    ELSE FAdd(FMul(LAB_F_A, t), LAB_F_B)

Lab_f_inverse_cubic(F) == PowN(F, 3)

Lab_f_inverse(F) ==
    IF FLe(F, FAdd(FMul(LAB_F_A, L_LUM_CUTOFF), LAB_F_B))
    THEN FDiv(FSub(F, LAB_F_B), LAB_F_A)
    ELSE PowN(F, 3)

----------------------------------------------------------------------------
(* class ColorConverter.  An instance is the record of its attributes; a   *)
(* method that raises returns err # "none".                                *)

GammaMethods == {GAMMA_CORRECT_POWER, GAMMA_CORRECT_SRGB}
ClipMethods  == {CLIP_CLAMP_TO_ZERO, CLIP_ADD_WHITE}

DefaultBitDepth == 8

\* (1 << bit_depth) - 1
MaxValueOf(bit_depth) == 2^bit_depth - 1

\* Each init_* method: the instance after the call, or the error raised.
init_gamma_correction_unchecked(self, gamma_method, gamma_value) ==
    [err |-> "none",
     self |-> [self EXCEPT !.gamma_method = gamma_method,
                           !.gamma_value = gamma_value]]

init_gamma_correction(self, gamma_method, gamma_value) ==
    IF gamma_method \notin GammaMethods
    THEN [err |-> "ValueError", self |-> self]
    ELSE [err |-> "none",
          self |-> [self EXCEPT !.gamma_method = gamma_method,
                                !.gamma_value = gamma_value]]

init_clipping_unchecked(self, clip_method) ==
    [err |-> "none", self |-> [self EXCEPT !.clip_method = clip_method]]

init_clipping(self, clip_method) ==
    IF clip_method \notin ClipMethods
    THEN [err |-> "ValueError", self |-> self]
    ELSE [err |-> "none", self |-> [self EXCEPT !.clip_method = clip_method]]

init_bit_depth_stale(self, bit_depth) ==
    [err |-> "none", self |-> [self EXCEPT !.bit_depth = bit_depth]]

init_bit_depth(self, bit_depth) ==
    [err |-> "none",
     self |-> [self EXCEPT !.bit_depth = bit_depth,
                           !.max_value = MaxValueOf(bit_depth)]]

\* An object whose attributes are not set yet.
Blank == [PhosphorRed |-> <<>>, PhosphorGreen |-> <<>>, PhosphorBlue |-> <<>>,
          PhosphorWhite |-> <<>>,
          xyz_from_rgb_matrix |-> <<>>, rgb_from_xyz_matrix |-> <<>>,
          reference_white |-> <<>>,
          reference_u_prime |-> Zero, reference_v_prime |-> Zero,
          gamma_method |-> -1, gamma_value |-> Frac(1, 1), clip_method |-> -1,
          bit_depth |-> 0, max_value |-> 0]

\* init_rgb_xyz: the attributes are assigned one statement after the other,
\* so that a call that raises leaves those assigned before the raise.
BasisInverted(self, inverse) ==
    IF inverse.err # "none" THEN [err |-> inverse.err, self |-> self]
    ELSE [err |-> "none",
          self |-> [self EXCEPT !.rgb_from_xyz_matrix = inverse.m]]

BasisAssigned(self, matrix) ==
    BasisInverted([self EXCEPT !.xyz_from_rgb_matrix = matrix], inv(matrix))

BasisOfIntensitiesUnscaled(self, intensities) ==
    IF intensities.err # "none" THEN [err |-> intensities.err, self |-> self]
    ELSE BasisAssigned(self,
             column_stack(self.PhosphorRed, self.PhosphorGreen,
                          self.PhosphorBlue))

BasisOfIntensities(self, intensities) ==
    IF intensities.err # "none" THEN [err |-> intensities.err, self |-> self]
    ELSE BasisAssigned(self,
             column_stack(Scale3(self.PhosphorRed, intensities.x[1]),
                          Scale3(self.PhosphorGreen, intensities.x[2]),
                          Scale3(self.PhosphorBlue, intensities.x[3])))

PhosphorsAssigned(self) ==
    BasisOfIntensities(self,
        solve(column_stack(self.PhosphorRed, self.PhosphorGreen,
                           self.PhosphorBlue),
              xyz_normalize_Y1(self.PhosphorWhite)))

init_rgb_xyz(self, phosphor_red, phosphor_green, phosphor_blue, white_point) ==
    PhosphorsAssigned([self EXCEPT !.PhosphorRed = phosphor_red,
                                   !.PhosphorGreen = phosphor_green,
                                   !.PhosphorBlue = phosphor_blue,
                                   !.PhosphorWhite = white_point])

ReferencePrimes(self, primes) ==
    [err |-> "none",
     self |-> [self EXCEPT !.reference_u_prime = primes.uv[1],
                           !.reference_v_prime = primes.uv[2]]]

ReferenceWhite(self, reference_white) ==
    ReferencePrimes([self EXCEPT !.reference_white = reference_white],
                    uv_primes(reference_white))

init_Luv_Lab_white_point(self, white_point) ==
    ReferenceWhite(self, xyz_normalize_Y1(white_point))

\* ColorConverter(...): the init_* calls in the order of __init__; the first
\* one that raises ends the construction and no instance is returned.
ClippingDone(c, bit_depth) ==
    IF c.err # "none" THEN [err |-> c.err, self |-> Blank]
    ELSE init_bit_depth(c.self, bit_depth)

GammaDone(g, clip_method, bit_depth) ==
    IF g.err # "none" THEN [err |-> g.err, self |-> Blank]
    ELSE ClippingDone(init_clipping(g.self, clip_method), bit_depth)

RgbXyzDone(x, white_point, gamma_method, gamma_value, clip_method, bit_depth) ==
    IF x.err # "none" THEN [err |-> x.err, self |-> Blank]
    ELSE GammaDone(
             init_gamma_correction(
                 init_Luv_Lab_white_point(x.self, white_point).self,
                 gamma_method, gamma_value),
             clip_method, bit_depth)

ColorConverter(phosphor_red, phosphor_green, phosphor_blue, white_point, gamma_method, gamma_value, clip_method, bit_depth) ==
    RgbXyzDone(init_rgb_xyz(Blank, phosphor_red, phosphor_green, phosphor_blue,
                            white_point),
               white_point, gamma_method, gamma_value, clip_method, bit_depth)

\* rgb <-> xyz
rgb_from_xyz(self, xyz) == Dot(self.rgb_from_xyz_matrix, xyz)

xyz_from_rgb(self, rgb) == Dot(self.xyz_from_rgb_matrix, rgb)

\* xyz <-> Luv.  A conversion returns its value, and err = ZeroDivision when
\* it divides by zero (python raises ZeroDivisionError, numpy warns and
\* yields inf or nan).
LuvOf(self, primes, err, L) ==
    [err |-> IF err # "none" THEN err ELSE primes.err,
     luv |-> luv_color(L,
                 FMul(FMul(FromInt(13), L),
                      FSub(primes.uv[1], self.reference_u_prime)),
                 FMul(FMul(FromInt(13), L),
                      FSub(primes.uv[2], self.reference_v_prime)))]

luv_from_xyz(self, xyz) ==
    LuvOf(self, uv_primes(xyz), DivErr(self.reference_white[2]),
          L_luminance(Quot(xyz[2], self.reference_white[2])))

XyzOfL13(self, luv, L13, y) ==
    Raised(DivErr(L13),
           uv_primes_inverse(
               FAdd(self.reference_u_prime, Quot(luv[2], L13)),
               FAdd(self.reference_v_prime, Quot(luv[3], L13)), y))

xyz_from_luv(self, luv) ==
    IF luv[1] # Zero
    THEN XyzOfL13(self, luv, FMul(FromInt(13), luv[1]),
                  L_luminance_inverse(luv[1]))
    ELSE [err |-> "none", xyz |-> xyz_color(Zero, Zero, Zero)]

\* xyz <-> Lab
LabOf(err, f_x, f_y, f_z, L) ==
    [err |-> err,
     lab |-> lab_color(L, FMul(FromInt(500), FSub(f_x, f_y)),
                          FMul(FromInt(200), FSub(f_y, f_z)))]

LabOfScaled(err, x_p, y_p, z_p) ==
    LabOf(err, Lab_f(x_p), Lab_f(y_p), Lab_f(z_p), L_luminance(y_p))

lab_from_xyz(self, xyz) ==
    LabOfScaled(IF Zero \in {self.reference_white[1], self.reference_white[2],
                             self.reference_white[3]}
                THEN ZeroDivision ELSE "none",
                Quot(xyz[1], self.reference_white[1]),
                Quot(xyz[2], self.reference_white[2]),
                Quot(xyz[3], self.reference_white[3]))

XyzOfFy(self, Lab, y_p, f_y) ==
    xyz_color(
        FMul(Lab_f_inverse(FAdd(f_y, FDiv(Lab[2], FromInt(500)))),
             self.reference_white[1]),
        FMul(y_p, self.reference_white[2]),
        FMul(Lab_f_inverse(FSub(f_y, FDiv(Lab[3], FromInt(200)))),
             self.reference_white[3]))

XyzOfYp(self, Lab, y_p) == XyzOfFy(self, Lab, y_p, Lab_f(y_p))

xyz_from_lab(self, Lab) == XyzOfYp(self, Lab, L_luminance_inverse(Lab[1]))

clip_color_clamp_together(self, rgb) ==
    [rgb |-> IF \E i \in 1..3 : FLt(rgb[i], Zero)
             THEN <<Zero, Zero, Zero>>
             ELSE rgb,
     clipped |-> \E i \in 1..3 : FLt(rgb[i], Zero)]

\* clip_color_clamp: the vector after the call and the flag returned.
clip_color_clamp(self, rgb) ==
    [rgb |-> <<IF FLt(rgb[1], Zero) THEN Zero ELSE rgb[1],
               IF FLt(rgb[2], Zero) THEN Zero ELSE rgb[2],
               IF FLt(rgb[3], Zero) THEN Zero ELSE rgb[3]>>,
     clipped |-> \E i \in 1..3 : FLt(rgb[i], Zero)]

\* clip_color_whiten, from "Add white and scale" on.
AddWhiteAndScale(rgb, rgb_min, scaling) ==
    IF FLt(rgb_min, Zero)
    THEN [rgb |-> <<FMul(scaling, FSub(rgb[1], rgb_min)),
                    FMul(scaling, FSub(rgb[2], rgb_min)),
                    FMul(scaling, FSub(rgb[3], rgb_min))>>,
          clipped |-> TRUE]
    ELSE [rgb |-> rgb, clipped |-> FALSE]

\* The scaling factor that maintains the largest channel.
WhitenScalingOne(rgb_min, rgb_max) == One

WhitenScaling(rgb_min, rgb_max) ==
    IF FGt(rgb_max, Zero)
    THEN FDiv(rgb_max, FSub(rgb_max, rgb_min))
    ELSE One

WhitenFrom(rgb, rgb_min, rgb_max) ==
    AddWhiteAndScale(rgb, rgb_min, WhitenScaling(rgb_min, rgb_max))

clip_color_whiten(self, rgb) ==
    WhitenFrom(rgb, FMin(Zero, Min3(rgb)), Max3(rgb))

\* 1.0 + (0.5 / self.max_value)
IntensityCutoffHalfStep(self) == FDiv(Lit(1, 2), FromInt(self.max_value))

IntensityCutoff(self) == FAdd(One, FDiv(Lit(1, 2), FromInt(self.max_value)))

ScaleToOne(rgb, rgb_max, intensity_cutoff) ==
    IF FGt(rgb_max, intensity_cutoff)
    THEN [rgb |-> Scale3(rgb, FDiv(One, rgb_max)),
          clipped |-> TRUE]
    ELSE [rgb |-> rgb, clipped |-> FALSE]

\* clip_color_intensity, from the comparison with the cutoff on.
ScaleToCutoff(rgb, rgb_max, intensity_cutoff) ==
    IF FGt(rgb_max, intensity_cutoff)
    THEN [rgb |-> Scale3(rgb, FDiv(intensity_cutoff, rgb_max)),
          clipped |-> TRUE]
    ELSE [rgb |-> rgb, clipped |-> FALSE]

clip_color_intensity(self, rgb) ==
    ScaleToCutoff(rgb, Max3(rgb), IntensityCutoff(self))

gamma_display_from_linear_component(self, x) ==
    IF self.gamma_method = GAMMA_CORRECT_POWER
    THEN [err |-> "none", y |-> simple_gamma_invert(x, self.gamma_value)]
    ELSE IF self.gamma_method = GAMMA_CORRECT_SRGB
    THEN [err |-> "none", y |-> srgb_gamma_invert(x)]
    ELSE [err |-> "ValueError", y |-> x]

gamma_linear_from_display_component(self, x) ==
    IF self.gamma_method = GAMMA_CORRECT_POWER
    THEN [err |-> "none", y |-> simple_gamma_correct(x, self.gamma_value)]
    ELSE IF self.gamma_method = GAMMA_CORRECT_SRGB
    THEN [err |-> "none", y |-> srgb_gamma_correct(x)]
    ELSE [err |-> "ValueError", y |-> x]

\* The vector after the three component assignments, or the error.
\* The three component assignments of gamma_display_from_linear and of
\* gamma_linear_from_display: the vector after them, or the error raised.
AssignComponents(rgb, c1, c2, c3) ==
    IF c1.err # "none" \/ c2.err # "none" \/ c3.err # "none"
    THEN [err |-> "ValueError", rgb |-> rgb]
    ELSE [err |-> "none", rgb |-> <<c1.y, c2.y, c3.y>>]

gamma_display_from_linear(self, rgb) ==
    AssignComponents(rgb,
                     gamma_display_from_linear_component(self, rgb[1]),
                     gamma_display_from_linear_component(self, rgb[2]),
                     gamma_display_from_linear_component(self, rgb[3]))

gamma_linear_from_display(self, rgb) ==
    AssignComponents(rgb,
                     gamma_linear_from_display_component(self, rgb[1]),
                     gamma_linear_from_display_component(self, rgb[2]),
                     gamma_linear_from_display_component(self, rgb[3]))

\* min (self.max_value, max (0, ir))
EnsureRangeSkipped(max_value, ir) == ir

EnsureRange(max_value, ir) == Min2(max_value, Max2(0, ir))

scale_int_from_float(self, rgb) ==
    irgb_color(
        EnsureRange(self.max_value,
                    RoundInt(FMul(FromInt(self.max_value), rgb[1]))),
        EnsureRange(self.max_value,
                    RoundInt(FMul(FromInt(self.max_value), rgb[2]))),
        EnsureRange(self.max_value,
                    RoundInt(FMul(FromInt(self.max_value), rgb[3]))))

scale_float_from_int(self, irgb) ==
    rgb_color(FDiv(FromInt(irgb[1]), FromInt(self.max_value)),
              FDiv(FromInt(irgb[2]), FromInt(self.max_value)),
              FDiv(FromInt(irgb[3]), FromInt(self.max_value)))

NoFlags == <<FALSE, FALSE>>

\* clip_rgb_color after its copy is made, on the working vector rgb: the
\* chromaticity clip, the intensity clip, the gamma correction and the scaling.
ScaleStage(self, chroma, inten, gam) ==
    IF gam.err # "none"
    THEN [err |-> gam.err, irgb |-> <<>>, flags |-> NoFlags, rgb |-> inten.rgb]
    ELSE [err |-> "none",
          irgb |-> scale_int_from_float(self, gam.rgb),
          flags |-> <<chroma.clipped, inten.clipped>>,
          rgb |-> gam.rgb]

GammaStage(self, chroma, inten) ==
    ScaleStage(self, chroma, inten, gamma_display_from_linear(self, inten.rgb))

IntensityStage(self, chroma) ==
    GammaStage(self, chroma, clip_color_intensity(self, chroma.rgb))

ClipStages(self, rgb) ==
    IF self.clip_method = CLIP_CLAMP_TO_ZERO
    THEN IntensityStage(self, clip_color_clamp(self, rgb))
    ELSE IF self.clip_method = CLIP_ADD_WHITE
    THEN IntensityStage(self, clip_color_whiten(self, rgb))
    ELSE [err |-> "ValueError", irgb |-> <<>>, flags |-> NoFlags, rgb |-> rgb]

\* rgb = rgb_color.copy(): the stages work on the copy (field rgb), the
\* caller's array (field arg) is the one that was passed.
clip_rgb_color_in_place(self, rgb_in) ==
    LET r == ClipStages(self, rgb_in) IN [arg |-> r.rgb] @@ r

clip_rgb_color(self, rgb_in) ==
    [arg |-> rgb_in] @@ ClipStages(self, rgb_in)

\* (irgb, (clipped_chrom, clipped_int)) = result; return irgb
IrgbOf(result) ==
    [err |-> result.err, irgb |-> result.irgb, arg |-> result.arg]

irgb_from_rgb(self, rgb) == IrgbOf(clip_rgb_color(self, rgb))

rgb_from_irgb(self, irgb) ==
    gamma_linear_from_display(self, scale_float_from_int(self, irgb))

----------------------------------------------------------------------------
(* The inputs the environment may pass.                                    *)

MaxSmallBitDepth == 1
DeepBitDepth     == 17
MaxMethod        == 2
MaxThreads       == 2

BitDepths    == (1..MaxSmallBitDepth) \cup {DefaultBitDepth, DeepBitDepth}
MethodInputs == 0..MaxMethod
GammaValues  == {STANDARD_GAMMA, Frac(1, 2)}

RgbVals == {FromInt(-1), Zero, Lit(1, 2), One, FromInt(3)}
RgbInputs == {rgb_color(r, g, b) : r \in RgbVals, g \in RgbVals, b \in RgbVals}

\* The display values next to the breakpoint 0.03928 of srgb_gamma_correct.
BreakIndex(max_value) == (max_value * 3928) \div 100000

IrgbVals(max_value) ==
    {0, 1, max_value \div 2, max_value,
     BreakIndex(max_value), BreakIndex(max_value) + 1} \cap (0..max_value)

IrgbInputs(max_value) ==
    {irgb_color(a, b, max_value \div 2) :
        a \in IrgbVals(max_value), b \in IrgbVals(max_value)}

HexVals == {-1, 0, 10, 19, 171, 210, 255, 256}
HexInputs ==
    {irgb_color(a, b, c) : a \in HexVals, b \in HexVals, c \in {-1, 0, 210, 256}}

HexPairs == {<<"A", "B">>, <<"1", "3">>, <<"d", "2">>, <<"+", "A">>,
             <<"-", "1">>, <<" ", "7">>, <<"G", "0">>}
StringInputs ==
    {<<"#">> \o p1 \o p2 \o p3 :
        p1 \in HexPairs, p2 \in HexPairs, p3 \in HexPairs}
    \cup {<<"A">> \o p1 \o p2 \o <<"D", "2">> :
            p1 \in HexPairs, p2 \in HexPairs}
    \cup {p1 \o p2 \o <<"D", "2">> : p1 \in HexPairs, p2 \in HexPairs}
    \cup {<<"#">> \o p1 \o p2 \o <<"D", "2", "0">> :
            p1 \in HexPairs, p2 \in HexPairs}
    \cup {<<>>, <<"#">>}

----------------------------------------------------------------------------
(* The state: the module-level default converter and the last call made    *)
(* on the module.                                                          *)

VARIABLES
    color_converter,  \* the module's default ColorConverter instance
    op,               \* the operation called last
    input,            \* its argument, as it was when the call was made
    caller,           \* the same object of the caller after the call
    result,           \* the value returned, <<>> when the call raised
    error,            \* "none", or the exception raised
    origin,           \* for a call made on the previous call's result:
                      \* the argument of that previous call; else <<>>
    constructing      \* per thread, its init() call in progress: the
                      \* position in it and its local values

vars == <<color_converter, op, input, caller, result, error, origin,
          constructing>>

Args(phosphor_red, phosphor_green, phosphor_blue, white_point, gamma_method, gamma_value, clip_method, bit_depth) ==
    [phosphor_red |-> phosphor_red, phosphor_green |-> phosphor_green,
     phosphor_blue |-> phosphor_blue, white_point |-> white_point,
     gamma_method |-> gamma_method, gamma_value |-> gamma_value,
     clip_method |-> clip_method, bit_depth |-> bit_depth]

DefaultArgs ==
    Args(SRGB_Red, SRGB_Green, SRGB_Blue, SRGB_White,
         GAMMA_CORRECT_SRGB, STANDARD_GAMMA, CLIP_ADD_WHITE, DefaultBitDepth)

\* ColorConverter(**args)
Construct(args) ==
    ColorConverter(args.phosphor_red, args.phosphor_green, args.phosphor_blue,
                   args.white_point, args.gamma_method, args.gamma_value,
                   args.clip_method, args.bit_depth)

\* The constructor's arguments, the phosphors being those of sRGB.
ArgsInputs ==
    {Args(SRGB_Red, SRGB_Green, SRGB_Blue, SRGB_White, gm, gv, cm, bd) :
        gm \in MethodInputs, gv \in GammaValues, cm \in MethodInputs,
        bd \in BitDepths}

\* The threads that may call init(), and a thread that is not in init().
Threads == 1..MaxThreads
NotConstructing == [pc |-> "none", args |-> <<>>, self |-> <<>>, err |-> "none"]

\* The module is loaded: init() with the default arguments.
Init ==
    /\ color_converter = Construct(DefaultArgs).self
    /\ op = "init"
    /\ input = DefaultArgs
    /\ caller = DefaultArgs
    /\ result = <<>>
    /\ error = "none"
    /\ origin = <<>>
    /\ constructing = [t \in Threads |-> NotConstructing]

\* The caller is between two calls.
Idle == op = "idle"

\* init(...) run without interruption: the global is assigned only when the
\* constructor returned.
init(args) ==
    /\ Idle
    /\ \E r \in {Construct(args)} :
        /\ color_converter' = IF r.err = "none" THEN r.self
                              ELSE color_converter
        /\ op' = "init"
        /\ input' = args
        /\ caller' = args
        /\ result' = <<>>
        /\ error' = r.err
        /\ origin' = <<>>
        /\ UNCHANGED constructing

\* ColorConverter(...) called by the user: an instance of their own.
NewColorConverter(args) ==
    /\ Idle
    /\ \E r \in {Construct(args)} :
        /\ op' = "ColorConverter"
        /\ input' = args
        /\ caller' = args
        /\ result' = IF r.err = "none" THEN r.self ELSE <<>>
        /\ error' = r.err
        /\ origin' = <<>>
        /\ UNCHANGED <<color_converter, constructing>>

\* A call of an init_* method on the default instance.
Reconfigure(name, call, args) ==
    \E r \in {call} :
    /\ color_converter' = r.self
    /\ op' = name
    /\ input' = args
    /\ caller' = args
    /\ result' = <<>>
    /\ error' = r.err
    /\ origin' = <<>>
    /\ UNCHANGED constructing

InitGammaCorrection(gamma_method, gamma_value) ==
    Idle /\ Reconfigure("init_gamma_correction",
                init_gamma_correction(color_converter, gamma_method, gamma_value),
                <<gamma_method, gamma_value>>)

InitClipping(clip_method) ==
    Idle /\ Reconfigure("init_clipping", init_clipping(color_converter, clip_method),
                <<clip_method>>)

InitBitDepth(bit_depth) ==
    Idle /\ Reconfigure("init_bit_depth", init_bit_depth(color_converter, bit_depth),
                <<bit_depth>>)

\* A method that works on the caller's array in place and returns a flag.
InPlace(name, rgb, call) ==
    \E r \in {call} :
    /\ op' = name
    /\ input' = rgb
    /\ caller' = r.rgb
    /\ result' = r.clipped
    /\ error' = "none"
    /\ origin' = <<>>
    /\ UNCHANGED <<color_converter, constructing>>

ClipColorClamp(rgb) ==
    Idle /\ InPlace("clip_color_clamp", rgb, clip_color_clamp(color_converter, rgb))

ClipColorWhiten(rgb) ==
    Idle /\ InPlace("clip_color_whiten", rgb, clip_color_whiten(color_converter, rgb))

ClipColorIntensity(rgb) ==
    Idle /\ InPlace("clip_color_intensity", rgb,
            clip_color_intensity(color_converter, rgb))

\* clip_rgb_color(rgb); from is the argument of the call that produced rgb.
ClipRgbColorCall(rgb, from) ==
    \E r \in {clip_rgb_color(color_converter, rgb)} :
        /\ op' = "clip_rgb_color"
        /\ input' = rgb
        /\ caller' = r.arg
        /\ result' = IF r.err = "none"
                     THEN [irgb |-> r.irgb, flags |-> r.flags] ELSE <<>>
        /\ error' = r.err
        /\ origin' = from
        /\ UNCHANGED <<color_converter, constructing>>

ClipRgbColor(rgb) == Idle /\ ClipRgbColorCall(rgb, <<>>)

\* clip_rgb_color(rgb_from_irgb(irgb)): the second call of the round trip.
ClipRgbColorOfResult ==
    /\ op = "rgb_from_irgb"
    /\ error = "none"
    /\ ClipRgbColorCall(result, input)

IrgbFromRgb(rgb) ==
    /\ Idle
    /\ \E r \in {irgb_from_rgb(color_converter, rgb)} :
        /\ op' = "irgb_from_rgb"
        /\ input' = rgb
        /\ caller' = r.arg
        /\ result' = IF r.err = "none" THEN r.irgb ELSE <<>>
        /\ error' = r.err
        /\ origin' = <<>>
        /\ UNCHANGED <<color_converter, constructing>>

RgbFromIrgb(irgb) ==
    /\ Idle
    /\ \E r \in {rgb_from_irgb(color_converter, irgb)} :
        /\ op' = "rgb_from_irgb"
        /\ input' = irgb
        /\ caller' = irgb
        /\ result' = IF r.err = "none" THEN r.rgb ELSE <<>>
        /\ error' = r.err
        /\ origin' = <<>>
        /\ UNCHANGED <<color_converter, constructing>>

IrgbStringFromIrgb(irgb) ==
    /\ Idle
    /\ \E r \in {irgb_string_from_irgb(irgb)} :
        /\ op' = "irgb_string_from_irgb"
        /\ input' = irgb
        /\ caller' = r.irgb
        /\ result' = r.str
        /\ error' = "none"
        /\ origin' = <<>>
        /\ UNCHANGED <<color_converter, constructing>>

IrgbFromIrgbStringCall(irgb_string, from) ==
    \E r \in {irgb_from_irgb_string(irgb_string)} :
        /\ op' = "irgb_from_irgb_string"
        /\ input' = irgb_string
        /\ caller' = irgb_string
        /\ result' = r.irgb
        /\ error' = r.err
        /\ origin' = from
        /\ UNCHANGED <<color_converter, constructing>>

IrgbFromIrgbString(irgb_string) ==
    Idle /\ IrgbFromIrgbStringCall(irgb_string, <<>>)

\* irgb_from_irgb_string(irgb_string_from_irgb(irgb))
IrgbFromIrgbStringOfResult ==
    /\ op = "irgb_string_from_irgb"
    /\ IrgbFromIrgbStringCall(result, input)

\* The caller is done with the last call's values.
Return ==
    /\ ~Idle
    /\ op' = "idle"
    /\ input' = <<>>
    /\ caller' = <<>>
    /\ result' = <<>>
    /\ error' = "none"
    /\ origin' = <<>>
    /\ UNCHANGED <<color_converter, constructing>>

\* A new call, on arguments of the caller's choice.
FreshCall ==
    \/ \E args \in ArgsInputs : init(args)
    \/ \E args \in ArgsInputs : NewColorConverter(args)
    \/ \E gm \in MethodInputs, gv \in GammaValues : InitGammaCorrection(gm, gv)
    \/ \E cm \in MethodInputs : InitClipping(cm)
    \/ \E bd \in BitDepths : InitBitDepth(bd)
    \/ \E rgb \in RgbInputs : ClipColorClamp(rgb)
    \/ \E rgb \in RgbInputs : ClipColorWhiten(rgb)
    \/ \E rgb \in RgbInputs : ClipColorIntensity(rgb)
    \/ \E rgb \in RgbInputs : ClipRgbColor(rgb)
    \/ \E rgb \in RgbInputs : IrgbFromRgb(rgb)
    \/ \E irgb \in IrgbInputs(color_converter.max_value) : RgbFromIrgb(irgb)
    \/ \E irgb \in HexInputs : IrgbStringFromIrgb(irgb)
    \/ \E s \in StringInputs : IrgbFromIrgbString(s)

Next ==
    \/ FreshCall
    \/ ClipRgbColorOfResult
    \/ IrgbFromIrgbStringOfResult
    \/ Return

Spec == Init /\ [][Next]_vars

----------------------------------------------------------------------------
(* The colour-space conversions called on the module: xyz <-> rgb,         *)
(* xyz <-> Luv, xyz <-> Lab, and the sRGB gamma functions.                 *)

\* The module-level functions, which work with the default converter.
BrightestUnscaled(rgb, max_rgb, max_component) ==
    [err |-> "none", rgb |-> rgb]

BrightestScaled(rgb, max_rgb, max_component) ==
    IF max_rgb # Zero
    THEN [err |-> DivErr(max_rgb),
          rgb |-> Scale3(rgb, Quot(max_component, max_rgb))]
    ELSE [err |-> "none", rgb |-> rgb]

BrightestOfUnguarded(rgb, max_component) ==
    [err |-> DivErr(Max3(rgb)),
     rgb |-> Scale3(rgb, Quot(max_component, Max3(rgb)))]

BrightestOf(rgb, max_component) ==
    BrightestScaled(rgb, Max3(rgb), max_component)

brightest_rgb_from_xyz(self, xyz, max_component) ==
    BrightestOf(rgb_from_xyz(self, xyz), max_component)

irgb_from_xyz(self, xyz) == irgb_from_rgb(self, rgb_from_xyz(self, xyz))

\* The phosphors and white points passed to init and init_rgb_xyz: two
\* devices, and a set with twice the same phosphor.
PhosphorInputs ==
    {<<SRGB_Red, SRGB_Green, SRGB_Blue>>,
     <<SMPTE_Red, SMPTE_Green, SMPTE_Blue>>,
     <<SRGB_Red, SRGB_Red, SRGB_Blue>>}

WhiteInputs == {SRGB_White, WhiteC}

DeviceInputs ==
    {Args(p[1], p[2], p[3], w, GAMMA_CORRECT_SRGB, STANDARD_GAMMA,
          CLIP_ADD_WHITE, bd) :
        p \in PhosphorInputs, w \in WhiteInputs, bd \in BitDepths}

BasisInputs ==
    {<<SMPTE_Red, SMPTE_Green, SMPTE_Blue, WhiteC>>,
     <<SRGB_Red, SRGB_Green, SRGB_Blue, SRGB_White>>,
     <<SRGB_Red, SRGB_Red, SRGB_Blue, SRGB_White>>}

\* xyz colours: black, colours of no luminance, two with x + 15y + 3z = 0,
\* dark, medium and bright ones, one whose components are negative, and the
\* white of the converter scaled to Y = 1.
XyzInputs(self) ==
    {xyz_color(Zero, Zero, Zero),
     xyz_color(One, Zero, Zero),
     xyz_color(FromInt(-3), Zero, One),
     xyz_color(FromInt(-15), One, Zero),
     xyz_color(Lit(5, 1000), Lit(5, 1000), Lit(5, 1000)),
     xyz_color(Lit(2, 10), Lit(3, 10), Lit(4, 10)),
     xyz_color(Lit(5, 10), Lit(2, 10), Lit(1, 10)),
     xyz_color(Lit(-2, 10), Lit(-2, 10), Lit(-2, 10)),
     xyz_normalize_Y1(self.PhosphorWhite)}

MaxComponentInputs == {One, Lit(1, 2)}

FewRgbInputs ==
    {rgb_color(One, One, One), rgb_color(Zero, Zero, Zero),
     rgb_color(Lit(1, 2), One, FromInt(3)),
     rgb_color(FromInt(-1), Zero, Lit(1, 2)),
     rgb_color(Lit(1, 4), Lit(1, 2), Lit(1, 8))}

\* Luv colours: L = 0 with and without chromaticity, colours on both sides
\* of the cutoff of L, and one whose v' comes out as 0.
LuvInputs(self) ==
    {luv_color(Zero, Zero, Zero),
     luv_color(Zero, FromInt(5), FromInt(-7)),
     luv_color(FromInt(5), One, One),
     luv_color(FromInt(50), FromInt(10), FromInt(-20)),
     luv_color(FromInt(100), Zero, Zero),
     luv_color(FromInt(10), Zero,
               FNeg(FMul(FromInt(130), self.reference_v_prime)))}

LabInputs ==
    {lab_color(Zero, Zero, Zero),
     lab_color(FromInt(5), One, One),
     lab_color(FromInt(50), FromInt(20), FromInt(-30)),
     lab_color(FromInt(100), Zero, Zero)}

\* Values of the unit interval: its ends, the breakpoints 0.00304 and 0.03928
\* of the sRGB functions, their images 0.0392768 and 0.00304025, values next
\* to and between them, and values of the power segment.
UnitInputs ==
    {Zero, Lit(1, 1000), Lit(304, 100000), Lit(30401, 10000000),
     Lit(30402, 10000000), Lit(305, 100000), Lit(2, 100),
     Lit(39276, 1000000), Lit(392768, 10000000), Lit(39278, 1000000),
     Lit(3928, 100000), Lit(3929, 100000), Lit(2, 10), Lit(1, 2),
     Lit(9, 10), One}

\* A call that leaves its argument and the converter alone.
Called(name, arg, value, err, from) ==
    /\ op' = name
    /\ input' = arg
    /\ caller' = arg
    /\ result' = IF err = "none" THEN value ELSE <<>>
    /\ error' = err
    /\ origin' = from
    /\ UNCHANGED <<color_converter, constructing>>

InitRgbXyz(phosphor_red, phosphor_green, phosphor_blue, white_point) ==
    Idle /\ Reconfigure("init_rgb_xyz",
                init_rgb_xyz(color_converter, phosphor_red, phosphor_green,
                             phosphor_blue, white_point),
                <<phosphor_red, phosphor_green, phosphor_blue, white_point>>)

InitLuvLabWhitePoint(white_point) ==
    Idle /\ Reconfigure("init_Luv_Lab_white_point",
                init_Luv_Lab_white_point(color_converter, white_point),
                <<white_point>>)

RgbFromXyzCall(xyz, from) ==
    \E r \in {rgb_from_xyz(color_converter, xyz)} :
        Called("rgb_from_xyz", xyz, r, "none", from)

RgbFromXyz(xyz) == Idle /\ RgbFromXyzCall(xyz, <<>>)

XyzFromRgbCall(rgb, from) ==
    \E r \in {xyz_from_rgb(color_converter, rgb)} :
        Called("xyz_from_rgb", rgb, r, "none", from)

XyzFromRgb(rgb) == Idle /\ XyzFromRgbCall(rgb, <<>>)

\* xyz_from_rgb (rgb_from_xyz (xyz))
XyzFromRgbOfResult ==
    /\ op = "rgb_from_xyz"
    /\ origin = <<>>
    /\ XyzFromRgbCall(result, input)

\* rgb_from_xyz (xyz_from_rgb (rgb))
RgbFromXyzOfResult ==
    /\ op = "xyz_from_rgb"
    /\ origin = <<>>
    /\ RgbFromXyzCall(result, input)

BrightestRgbFromXyz(xyz, max_component) ==
    /\ Idle
    /\ \E r \in {brightest_rgb_from_xyz(color_converter, xyz, max_component)} :
        Called("brightest_rgb_from_xyz", <<xyz, max_component>>, r.rgb, r.err,
               <<>>)

IrgbFromXyz(xyz) ==
    /\ Idle
    /\ \E r \in {irgb_from_xyz(color_converter, xyz)} :
        Called("irgb_from_xyz", xyz, r.irgb, r.err, <<>>)

LuvFromXyz(xyz) ==
    /\ Idle
    /\ \E r \in {luv_from_xyz(color_converter, xyz)} :
        Called("luv_from_xyz", xyz, r.luv, r.err, <<>>)

XyzFromLuvCall(luv, from) ==
    \E r \in {xyz_from_luv(color_converter, luv)} :
        Called("xyz_from_luv", luv, r.xyz, r.err, from)

XyzFromLuv(luv) == Idle /\ XyzFromLuvCall(luv, <<>>)

\* xyz_from_luv (luv_from_xyz (xyz))
XyzFromLuvOfResult ==
    /\ op = "luv_from_xyz"
    /\ error = "none"
    /\ XyzFromLuvCall(result, input)

LabFromXyz(xyz) ==
    /\ Idle
    /\ \E r \in {lab_from_xyz(color_converter, xyz)} :
        Called("lab_from_xyz", xyz, r.lab, r.err, <<>>)

XyzFromLabCall(Lab, from) ==
    \E r \in {xyz_from_lab(color_converter, Lab)} :
        Called("xyz_from_lab", Lab, r, "none", from)

XyzFromLab(Lab) == Idle /\ XyzFromLabCall(Lab, <<>>)

\* xyz_from_lab (lab_from_xyz (xyz))
XyzFromLabOfResult ==
    /\ op = "lab_from_xyz"
    /\ error = "none"
    /\ XyzFromLabCall(result, input)

SrgbGammaInvertCall(x, from) ==
    \E r \in {srgb_gamma_invert(x)} :
        Called("srgb_gamma_invert", x, r, "none", from)

SrgbGammaInvert(x) == Idle /\ SrgbGammaInvertCall(x, <<>>)

SrgbGammaCorrectCall(x, from) ==
    \E r \in {srgb_gamma_correct(x)} :
        Called("srgb_gamma_correct", x, r, "none", from)

SrgbGammaCorrect(x) == Idle /\ SrgbGammaCorrectCall(x, <<>>)

\* srgb_gamma_invert (srgb_gamma_correct (x))
SrgbGammaInvertOfResult ==
    /\ op = "srgb_gamma_correct"
    /\ origin = <<>>
    /\ SrgbGammaInvertCall(result, input)

\* srgb_gamma_correct (srgb_gamma_invert (x))
SrgbGammaCorrectOfResult ==
    /\ op = "srgb_gamma_invert"
    /\ origin = <<>>
    /\ SrgbGammaCorrectCall(result, input)


----------------------------------------------------------------------------
(* color_from_refl of reflectance_color.py: the colour of a reflectance    *)
(* spectrum under an illuminant.  The illuminant table and the integration *)
(* of a spectrum belong to colorpy.illuminants and colorpy.ciexyz, which   *)
(* this development takes as given: the table has a row for every whole    *)
(* wavelength from 360 to 830 nm, and the integration returns some xyz.    *)

MinWavelength == 360
MaxWavelength == 830

Samples(wavelengths) == {wavelengths[i] : i \in 1..Len(wavelengths)}

\* The exception raised by the checks that open color_from_refl, "none" when
\* they all pass.  min() of an empty sequence raises ValueError.
RejectionOfNames(refl, wavelengths, illuminant_name) ==
    IF illuminant_name # "D65" THEN "ValueError"
    ELSE IF Len(refl) # Len(wavelengths) THEN "AssertionError"
    ELSE IF wavelengths = <<>> THEN "ValueError"
    ELSE IF \E w \in Samples(wavelengths) : w < MinWavelength
    THEN "AssertionError"
    ELSE IF \E w \in Samples(wavelengths) : w > MaxWavelength
    THEN "AssertionError"
    ELSE "none"

Rejection(refl, wavelengths, illuminant_name) ==
    IF illuminant_name # "D65" THEN "ValueError"
    ELSE IF Len(refl) # Len(wavelengths) THEN "AssertionError"
    ELSE IF \E i \in 1..Len(refl) : ~(FLe(Zero, refl[i]) /\ FLe(refl[i], One))
    THEN "AssertionError"
    ELSE IF wavelengths = <<>> THEN "ValueError"
    ELSE IF \E w \in Samples(wavelengths) : w < MinWavelength
    THEN "AssertionError"
    ELSE IF \E w \in Samples(wavelengths) : w > MaxWavelength
    THEN "AssertionError"
    ELSE "none"

\* np.intersect1d: the wavelengths of the table that were passed, ascending
\* and each once.
intersect1d(wavelengths) ==
    CHOOSE s \in [1..Cardinality(Samples(wavelengths)) -> Samples(wavelengths)] :
        \A i, j \in DOMAIN s : i < j => s[i] < s[j]

\* illuminant[:,1]*refl and np.vstack need as many rows of the table as
\* there are reflectances.
Aligned(refl, wavelengths) == Cardinality(Samples(wavelengths)) = Len(refl)

\* The spectrum handed to the integration: per wavelength, the share of the
\* illuminant's power that is reflected.
Spectrum(refl, wavelengths) ==
    [i \in 1..Len(refl) |-> <<intersect1d(wavelengths)[i], refl[i]>>]

\* colorpy.ciexyz.xyz_from_spectrum: the values it may return.
xyz_from_spectrum(spectrum) ==
    {xyz_color(Zero, Zero, Zero),
     xyz_color(Lit(2, 10), Lit(3, 10), Lit(4, 10))}

\* color = {'rgb': rgb, 'irgb': irgb, 'xyz': xyz, 'lab': lab}
ColorOfIrgb(xyz, lab, rgb, irgb) ==
    [err |-> IF lab.err # "none" THEN lab.err ELSE irgb.err,
     color |-> [rgb |-> rgb, irgb |-> irgb.irgb, xyz |-> xyz, lab |-> lab.lab]]

ColorOfRgb(self, xyz, rgb) ==
    ColorOfIrgb(xyz, lab_from_xyz(self, xyz), rgb, irgb_from_rgb(self, rgb))

ColorOfXyz(self, xyz) == ColorOfRgb(self, xyz, rgb_from_xyz(self, xyz))

\* Reflectances and wavelengths: none, one and two samples, at the ends of
\* the ranges allowed and next to them, in either order and twice the same.
ReflValues ==
    {<<>>, <<Zero>>, <<Zero, One>>, <<Lit(11, 10), Zero>>,
     <<Zero, Lit(-1, 10)>>}

WavelengthValues ==
    {<<>>, <<MinWavelength>>, <<MinWavelength, MaxWavelength>>,
     <<MaxWavelength, MinWavelength>>, <<MinWavelength - 1, MaxWavelength>>,
     <<MinWavelength, MaxWavelength + 1>>, <<MinWavelength, MinWavelength>>}

ReflInputs ==
    {<<refl, wavelengths, illuminant_name>> :
        refl \in ReflValues,
        wavelengths \in WavelengthValues,
        illuminant_name \in {"D65", "A"}}

\* color_from_refl (refl, wavelengths, illuminant_name); origin is the
\* spectrum that was integrated, <<>> when none was.
ColorFromRefl(refl, wavelengths, illuminant_name) ==
    /\ Idle
    /\ \E rejected \in {Rejection(refl, wavelengths, illuminant_name)} :
        IF rejected # "none"
        THEN Called("color_from_refl", <<refl, wavelengths, illuminant_name>>,
                    <<>>, rejected, <<>>)
        ELSE IF ~Aligned(refl, wavelengths)
        THEN Called("color_from_refl", <<refl, wavelengths, illuminant_name>>,
                    <<>>, "ValueError", <<>>)
        ELSE \E xyz \in xyz_from_spectrum(Spectrum(refl, wavelengths)) :
             \E r \in {ColorOfXyz(color_converter, xyz)} :
                Called("color_from_refl",
                       <<refl, wavelengths, illuminant_name>>,
                       r.color, r.err, Spectrum(refl, wavelengths))

FreshColorCall ==
    \/ \E args \in DeviceInputs : init(args)
    \/ \E b \in BasisInputs : InitRgbXyz(b[1], b[2], b[3], b[4])
    \/ \E w \in WhiteInputs : InitLuvLabWhitePoint(w)
    \/ \E xyz \in XyzInputs(color_converter) : RgbFromXyz(xyz)
    \/ \E rgb \in FewRgbInputs : XyzFromRgb(rgb)
    \/ \E xyz \in XyzInputs(color_converter), mc \in MaxComponentInputs :
          BrightestRgbFromXyz(xyz, mc)
    \/ \E xyz \in XyzInputs(color_converter) : IrgbFromXyz(xyz)
    \/ \E xyz \in XyzInputs(color_converter) : LuvFromXyz(xyz)
    \/ \E luv \in LuvInputs(color_converter) : XyzFromLuv(luv)
    \/ \E xyz \in XyzInputs(color_converter) : LabFromXyz(xyz)
    \/ \E Lab \in LabInputs : XyzFromLab(Lab)
    \/ \E a \in ReflInputs : ColorFromRefl(a[1], a[2], a[3])
    \/ \E x \in UnitInputs : SrgbGammaInvert(x)
    \/ \E x \in UnitInputs : SrgbGammaCorrect(x)

NextColor ==
    \/ FreshColorCall
    \/ XyzFromRgbOfResult
    \/ RgbFromXyzOfResult
    \/ XyzFromLuvOfResult
    \/ XyzFromLabOfResult
    \/ SrgbGammaInvertOfResult
    \/ SrgbGammaCorrectOfResult
    \/ Return

SpecColor == Init /\ [][NextColor]_vars

----------------------------------------------------------------------------
(* init() called by several threads, one statement at a time, while other  *)
(* code reads the default converter.                                       *)
(*                                                                         *)
(* color_converter = ColorConverter (...) evaluates the constructor on a   *)
(* new object that only the calling thread holds, and then stores it in    *)
(* the global; an exception raised by a step of __init__ leaves init()     *)
(* before the store.                                                       *)

\* The global after a statement of init() run in frame.
PublishedEarly(current, frame) == frame.self

Published(current, frame) ==
    IF frame.pc = "assign" THEN frame.self ELSE current

\* Thread t has run the statement at its position: call is what the
\* statement returned or raised, next is the statement after it.
Statement(t, call, next) ==
    \E r \in {call} :
    /\ constructing' =
           [constructing EXCEPT ![t] =
               IF r.err # "none"
               THEN [@ EXCEPT !.pc = "raised", !.self = r.self, !.err = r.err]
               ELSE [@ EXCEPT !.pc = next, !.self = r.self]]
    /\ color_converter' = Published(color_converter, constructing[t])
    /\ UNCHANGED <<op, input, caller, result, error, origin>>

\* init (...) is entered: the object is allocated.
InitCall(t, args) ==
    /\ constructing[t].pc = "none"
    /\ constructing' =
           [constructing EXCEPT ![t] =
               [pc |-> "init_rgb_xyz", args |-> args, self |-> Blank,
                err |-> "none"]]
    /\ UNCHANGED <<color_converter, op, input, caller, result, error, origin>>

InitRgbXyzStatement(t) ==
    /\ constructing[t].pc = "init_rgb_xyz"
    /\ \E f \in {constructing[t]} :
        Statement(t, init_rgb_xyz(f.self, f.args.phosphor_red,
                                  f.args.phosphor_green, f.args.phosphor_blue,
                                  f.args.white_point),
                  "init_Luv_Lab_white_point")

InitLuvLabWhitePointStatement(t) ==
    /\ constructing[t].pc = "init_Luv_Lab_white_point"
    /\ \E f \in {constructing[t]} :
        Statement(t, init_Luv_Lab_white_point(f.self, f.args.white_point),
                  "init_gamma_correction")

InitGammaCorrectionStatement(t) ==
    /\ constructing[t].pc = "init_gamma_correction"
    /\ \E f \in {constructing[t]} :
        Statement(t, init_gamma_correction(f.self, f.args.gamma_method,
                                           f.args.gamma_value),
                  "init_clipping")

InitClippingStatement(t) ==
    /\ constructing[t].pc = "init_clipping"
    /\ \E f \in {constructing[t]} :
        Statement(t, init_clipping(f.self, f.args.clip_method),
                  "init_bit_depth")

InitBitDepthStatement(t) ==
    /\ constructing[t].pc = "init_bit_depth"
    /\ \E f \in {constructing[t]} :
        Statement(t, init_bit_depth(f.self, f.args.bit_depth), "assign")

\* color_converter = <the instance the constructor returned>
InitAssign(t) ==
    /\ constructing[t].pc = "assign"
    /\ Statement(t, [err |-> "none", self |-> constructing[t].self],
                 "returned")

\* init () returns, or its exception reaches the caller.
InitReturn(t) ==
    /\ constructing[t].pc \in {"returned", "raised"}
    /\ constructing' = [constructing EXCEPT ![t] = NotConstructing]
    /\ UNCHANGED <<color_converter, op, input, caller, result, error, origin>>

\* The arguments the threads pass to init(): another device, and the three
\* configuration errors.
InitInputs ==
    {Args(SMPTE_Red, SMPTE_Green, SMPTE_Blue, WhiteC,
          GAMMA_CORRECT_POWER, STANDARD_GAMMA, CLIP_CLAMP_TO_ZERO,
          MaxSmallBitDepth),
     Args(SRGB_Red, SRGB_Red, SRGB_Blue, SRGB_White,
          GAMMA_CORRECT_SRGB, STANDARD_GAMMA, CLIP_ADD_WHITE, DefaultBitDepth),
     Args(SRGB_Red, SRGB_Green, SRGB_Blue, SRGB_White,
          MaxMethod, STANDARD_GAMMA, CLIP_ADD_WHITE, DefaultBitDepth),
     Args(SRGB_Red, SRGB_Green, SRGB_Blue, SRGB_White,
          GAMMA_CORRECT_SRGB, STANDARD_GAMMA, MaxMethod, DefaultBitDepth)}

\* What the reading code converts meanwhile.
ReaderInputs ==
    {xyz_color(Lit(2, 10), Lit(3, 10), Lit(4, 10)), xyz_color(Zero, One, Zero)}

NextInit ==
    \/ \E t \in Threads, args \in InitInputs : InitCall(t, args)
    \/ \E t \in Threads : InitRgbXyzStatement(t)
    \/ \E t \in Threads : InitLuvLabWhitePointStatement(t)
    \/ \E t \in Threads : InitGammaCorrectionStatement(t)
    \/ \E t \in Threads : InitClippingStatement(t)
    \/ \E t \in Threads : InitBitDepthStatement(t)
    \/ \E t \in Threads : InitAssign(t)
    \/ \E t \in Threads : InitReturn(t)
    \/ \E xyz \in ReaderInputs : RgbFromXyz(xyz)
    \/ Return

SpecInit == Init /\ [][NextInit]_vars

----------------------------------------------------------------------------
(* GammaCorrect: the gamma curve with a linear region near black.  gamma   *)
(* is kept as the fraction it stands for, since it is also an exponent; an *)
(* instance is the record of its attributes.                               *)

\* float (gamma), and self.gamma - 1.0 as an exponent
GammaFloat(gamma) == Lit(gamma.p, gamma.q)
GammaLessOne(gamma) == Frac(gamma.p - gamma.q, gamma.q)

\* __init__ up to "Precompute": the attributes as supplied.
Precomputed(gamma, a, K0, Phi) ==
    [err |-> DivErr(Phi),
     self |-> [gamma |-> gamma, a |-> a, K0 |-> K0, Phi |-> Phi,
               one_plus_a |-> FAdd(One, a),
               inv_gamma |-> Recip(gamma),
               K0_over_Phi |-> Quot(K0, Phi)]]

\* self.K0 = ...; self.Phi = ...; self.K0_over_Phi = self.K0 / self.Phi
EdgeOfBlack(self, K0_better, Phi_better) ==
    [self EXCEPT !.K0 = K0_better, !.Phi = Phi_better,
                 !.K0_over_Phi = Quot(K0_better, Phi_better)]

\* (Phi_term_1 * Phi_term_2) / (Phi_term_3 * Phi_term_4)
PhiOfTerms(self) ==
    FDiv(FMul(FPow(self.one_plus_a, self.gamma),
              FPow(FSub(GammaFloat(self.gamma), One), GammaLessOne(self.gamma))),
         FMul(FPow(self.a, GammaLessOne(self.gamma)),
              FPow(GammaFloat(self.gamma), self.gamma)))

set_continuous_slope_of_Phi(self) ==
    IF FSub(GammaFloat(self.gamma), One) = Zero \/ self.a = Zero
    THEN [err |-> ZeroDivision, self |-> self]
    ELSE [err |-> "none",
          self |-> EdgeOfBlack(self, self.K0, PhiOfTerms(self))]

\* set_continuous_slope: a / (gamma - 1.0) divides by zero for gamma = 1, and
\* math.pow (a, gamma - 1.0) is 0.0 for a = 0, so the quotient of the terms does.
set_continuous_slope(self) ==
    IF FSub(GammaFloat(self.gamma), One) = Zero \/ self.a = Zero
    THEN [err |-> ZeroDivision, self |-> self]
    ELSE [err |-> "none",
          self |-> EdgeOfBlack(self,
                       FDiv(self.a, FSub(GammaFloat(self.gamma), One)),
                       PhiOfTerms(self))]

\* improve_Phi: Phi_better = self.K0 / lhs
improve_Phi(self) ==
    EdgeOfBlack(self, self.K0,
        FDiv(self.K0,
             FPow(FDiv(FAdd(self.K0, self.a), self.one_plus_a), self.gamma)))

\* for i in range(4): self.improve_Phi()
ImprovedFourTimes(r) ==
    IF r.err # "none" THEN r
    ELSE [err |-> "none",
          self |-> improve_Phi(improve_Phi(improve_Phi(improve_Phi(r.self))))]

SlopeMadeContinuous(r) ==
    IF r.err # "none" THEN r
    ELSE ImprovedFourTimes(set_continuous_slope(r.self))

GammaCorrect(gamma, a, K0, Phi) ==
    SlopeMadeContinuous(Precomputed(gamma, a, K0, Phi))

\* The arguments of GammaCorrect: exponents 2.4, 2.2, 2 and 1, offsets of
\* the standards, 1/2 and 0, and cutoffs and slopes as supplied, one of
\* them with Phi = 0.
GammaExponents == {Frac(12, 5), STANDARD_GAMMA, Frac(2, 1), Frac(1, 1)}

Offsets == {Lit(55, 1000), Lit(99, 1000), Lit(1, 2), Zero}

SuppliedEdges ==
    {<<Lit(3928, 100000), Lit(1292, 100)>>,
     <<Lit(81, 1000), Lit(45, 10)>>,
     <<Lit(1, 2), One>>,
     <<Lit(4, 100), Zero>>}

NewGammaCorrect(gamma, a, K0, Phi) ==
    /\ Idle
    /\ \E r \in {GammaCorrect(gamma, a, K0, Phi)} :
        Called("GammaCorrect", <<gamma, a, K0, Phi>>, r.self, r.err, <<>>)

\* A method called on the instance just built or just changed: input is the
\* instance before the call, caller the instance after it, origin the
\* arguments it was built with.
OnInstance(name, r) ==
    /\ op' = name
    /\ input' = r.before
    /\ caller' = r.after
    /\ result' = <<>>
    /\ error' = "none"
    /\ origin' = IF op = "GammaCorrect" THEN input ELSE origin
    /\ UNCHANGED <<color_converter, constructing>>

SetContinuousSlope ==
    /\ op = "GammaCorrect"
    /\ error = "none"
    /\ \E r \in {[before |-> result,
                  after |-> set_continuous_slope(result).self]} :
        OnInstance("set_continuous_slope", r)

ImprovePhi ==
    \/ /\ op = "GammaCorrect"
       /\ error = "none"
       /\ \E r \in {[before |-> result, after |-> improve_Phi(result)]} :
           OnInstance("improve_Phi", r)
    \/ /\ op = "set_continuous_slope"
       /\ \E r \in {[before |-> caller, after |-> improve_Phi(caller)]} :
           OnInstance("improve_Phi", r)

NextGamma ==
    \/ \E gamma \in GammaExponents, a \in Offsets, edge \in SuppliedEdges :
          NewGammaCorrect(gamma, a, edge[1], edge[2])
    \/ SetContinuousSlope
    \/ ImprovePhi
    \/ Return

SpecGamma == Init /\ [][NextGamma]_vars

----------------------------------------------------------------------------
(* The default converter reconfigured by its five init_* methods, with     *)
(* valid and invalid arguments, between conversions and calls of init ().  *)

NextConfig ==
    \/ \E args \in InitInputs : init(args)
    \/ \E b \in BasisInputs : InitRgbXyz(b[1], b[2], b[3], b[4])
    \/ \E w \in WhiteInputs : InitLuvLabWhitePoint(w)
    \/ \E gm \in MethodInputs, gv \in GammaValues : InitGammaCorrection(gm, gv)
    \/ \E cm \in MethodInputs : InitClipping(cm)
    \/ \E bd \in BitDepths : InitBitDepth(bd)
    \/ \E xyz \in ReaderInputs : RgbFromXyz(xyz)
    \/ \E xyz \in ReaderInputs : LuvFromXyz(xyz)
    \/ \E rgb \in FewRgbInputs : IrgbFromRgb(rgb)
    \/ Return

SpecConfig == Init /\ [][NextConfig]_vars

----------------------------------------------------------------------------
(* Properties of the clipping and quantization pipeline.                   *)

\* a and b agree up to the rounding of a few floating-point operations:
\* |a - b| <= 10^-6 * max(|a|, |b|).
Close(a, b) ==
    FLe(FAbs(FSub(a, b)), FMul(Lit(1, 1000000), FMax(FAbs(a), FAbs(b))))

HasNegative(rgb) == \E k \in 1..3 : FLt(rgb[k], Zero)

\* The last call converted a linear rgb to an irgb and returned.
Converted == op \in {"clip_rgb_color", "irgb_from_rgb"} /\ error = "none"

\* The irgb that call returned.
ReturnedIrgb == IF op = "clip_rgb_color" THEN result.irgb ELSE result

\* C1: for every linear rgb (any sign, any magnitude), either clip method,
\* either gamma method and every bit depth b >= 1, each channel of the irgb
\* that clip_rgb_color / irgb_from_rgb returns is an integer in [0, 2^b - 1].
C1_IrgbInRange ==
    (Converted /\ color_converter.bit_depth >= 1) =>
        \A k \in 1..3 :
            ReturnedIrgb[k] \in 0..(2^(color_converter.bit_depth) - 1)

\* An input with a negative channel and a channel above 1 was converted, to an
\* irgb that holds both ends of the range.
C1_Witness ==
    /\ Converted
    /\ op = "irgb_from_rgb"
    /\ input[1] = FromInt(-1)
    /\ input[2] = FromInt(3)
    /\ \E k \in 1..3 : result[k] = 0
    /\ \E k \in 1..3 : result[k] = 2^(color_converter.bit_depth) - 1

\* Inputs that fire neither stage, the first, the second, and both.
FlagInputs ==
    {rgb_color(Lit(1, 2), Lit(1, 2), Lit(1, 2)),
     rgb_color(FromInt(-1), Lit(1, 2), One),
     rgb_color(FromInt(3), One, Zero),
     rgb_color(FromInt(-1), FromInt(3), Zero)}

C3_Scale(rgb) ==
    IF FGt(Max3(rgb), Zero)
    THEN FDiv(Max3(rgb), FSub(Max3(rgb), Min3(rgb)))
    ELSE One

\* C3: under the add-white policy, if some channel is negative the flag is
\* true, every channel after the stage is >= 0, the smallest channel is exactly
\* 0, every channel is scale * (channel - m) and, when the largest input channel
\* is > 0, the largest channel keeps its value (up to rounding); if no channel
\* is negative the rgb is unchanged and the flag is false.  A negative-channel
\* input to clip_rgb_color under add-white sets clipped_chromaticity and no
\* displayed channel is negative.
C3_AddWhite ==
    /\ op = "clip_color_whiten" =>
          IF HasNegative(input)
          THEN /\ result = TRUE
               /\ \A k \in 1..3 : FLe(Zero, caller[k])
               /\ Min3(caller) = Zero
               /\ \A k \in 1..3 :
                     caller[k] = FMul(C3_Scale(input),
                                      FSub(input[k], Min3(input)))
               /\ FGt(Max3(input), Zero) => Close(Max3(caller), Max3(input))
          ELSE caller = input /\ result = FALSE
    /\ (/\ op = "clip_rgb_color"
        /\ error = "none"
        /\ color_converter.clip_method = CLIP_ADD_WHITE
        /\ HasNegative(input)) =>
            /\ result.flags[1] = TRUE
            /\ \A k \in 1..3 : result.irgb[k] >= 0

\* Add-white acted on a vector with a negative channel whose largest channel,
\* 1/2, is kept by a scale factor (1/3) that is not a machine number.
C3_Witness ==
    /\ op = "clip_color_whiten"
    /\ result = TRUE
    /\ Min3(input) = FromInt(-1)
    /\ Max3(input) = Lit(1, 2)
    /\ Min3(caller) = Zero

\* C4: clip_rgb_color and irgb_from_rgb leave the rgb vector passed by the
\* caller unchanged, also when one or both clipping stages fire.
C4_CallerUnchanged ==
    op \in {"clip_rgb_color", "irgb_from_rgb"} => caller = input

\* clip_rgb_color returned with both stages fired and a gamma-corrected result.
C4_Witness ==
    /\ op = "clip_rgb_color"
    /\ error = "none"
    /\ result.flags = <<TRUE, TRUE>>
    /\ HasNegative(input)
    /\ caller = input

Black == rgb_color(Zero, Zero, Zero)
White == rgb_color(One, One, One)

\* C5: for every bit depth b >= 1 and both clip methods,
\* irgb_from_rgb((0,0,0)) = (0,0,0) and irgb_from_rgb((1,1,1)) is 2^b - 1 in
\* every channel, and neither clipping flag is set for these two inputs.
C5_BlackAndWhite ==
    (Converted /\ color_converter.bit_depth >= 1) =>
        /\ input = Black => ReturnedIrgb = irgb_color(0, 0, 0)
        /\ input = White =>
              \A k \in 1..3 :
                  ReturnedIrgb[k] = 2^(color_converter.bit_depth) - 1
        /\ (op = "clip_rgb_color" /\ input \in {Black, White}) =>
              result.flags = <<FALSE, FALSE>>

\* irgb_from_rgb((1,1,1)) returned (255,255,255) under clamp-to-zero.
C5_Witness ==
    /\ op = "irgb_from_rgb"
    /\ error = "none"
    /\ input = White
    /\ color_converter.clip_method = CLIP_CLAMP_TO_ZERO
    /\ color_converter.bit_depth = DefaultBitDepth
    /\ result = irgb_color(255, 255, 255)

\* C6: rgb_from_irgb is the exact inverse of irgb_from_rgb where nothing is
\* clipped: for every irgb i with all channels in [0, max_value],
\* clip_rgb_color(rgb_from_irgb(i)) sets neither clip flag and returns
\* exactly i.
C6_ExactInverse ==
    (/\ op = "clip_rgb_color"
     /\ origin # <<>>
     /\ \A k \in 1..3 : origin[k] \in 0..color_converter.max_value) =>
        /\ error = "none"
        /\ result.flags = <<FALSE, FALSE>>
        /\ result.irgb = origin

----------------------------------------------------------------------------
(* Properties of the hex-string codec.                                     *)

\* The two uppercase hexadecimal digits of v, 0 <= v <= 255.
TwoHex(v) == <<HexDigits[(v \div 16) + 1], HexDigits[(v % 16) + 1]>>

\* C7: for every irgb with all three channels in [0,255],
\* irgb_from_irgb_string(irgb_string_from_irgb(irgb)) = irgb.
C7_HexRoundTrip ==
    (/\ op = "irgb_from_irgb_string"
     /\ origin # <<>>
     /\ \A k \in 1..3 : origin[k] \in 0..255) =>
        /\ error = "none"
        /\ result = origin

\* (171,19,210) was encoded as '#AB13D2' and decoded back.
C7_Witness ==
    /\ op = "irgb_from_irgb_string"
    /\ origin = irgb_color(171, 19, 210)
    /\ input = <<"#", "A", "B", "1", "3", "D", "2">>
    /\ result = irgb_color(171, 19, 210)

\* C8: for every integer triple, also with channels below 0 or above 255,
\* irgb_string_from_irgb returns exactly 7 characters: '#', then for each
\* channel the two uppercase hexadecimal digits of min(255, max(0, channel));
\* no error and no flag is produced.
C8_SevenCharacters ==
    op = "irgb_string_from_irgb" =>
        /\ error = "none"
        /\ Len(result) = 7
        /\ result[1] = "#"
        /\ \A k \in 1..3 :
              SubSeq(result, 2 * k, 2 * k + 1)
                  = TwoHex(Min2(255, Max2(0, input[k])))

\* A triple with a channel below 0 and a channel above 255 was encoded.
C8_Witness ==
    /\ op = "irgb_string_from_irgb"
    /\ input = irgb_color(-1, 256, 210)
    /\ result = <<"#", "0", "0", "F", "F", "D", "2">>

\* c is one of 0-9, A-F, a-f.
HexadecimalDigit(c) ==
    c \in {"0", "1", "2", "3", "4", "5", "6", "7", "8", "9",
           "A", "B", "C", "D", "E", "F", "a", "b", "c", "d", "e", "f"}

\* C9: irgb_from_irgb_string is strict: it fails with a format error for
\* every string whose length is not 7, whose first character is not '#', or
\* in which one of the last six characters is not a hexadecimal digit (a sign
\* or a space inside a channel pair, for example); it never parses such a
\* string into a colour.
C9_StrictDecode ==
    (/\ op = "irgb_from_irgb_string"
     /\ \/ Len(input) # 7
        \/ input[1] # "#"
        \/ \E k \in 2..7 : ~HexadecimalDigit(input[k])) =>
        /\ error # "none"
        /\ result = <<>>

----------------------------------------------------------------------------
(* Properties of the construction of a ColorConverter.                     *)

RecognizedMethods(c) ==
    /\ c.gamma_method \in {GAMMA_CORRECT_POWER, GAMMA_CORRECT_SRGB}
    /\ c.clip_method \in {CLIP_CLAMP_TO_ZERO, CLIP_ADD_WHITE}

\* C10: constructing a ColorConverter, directly or through init, with a
\* gamma_method or a clip_method outside the recognized ones fails at
\* construction, so no converter holding an unrecognized method ever exists.
C10_MethodsValidated ==
    /\ (op \in {"init", "ColorConverter"} /\ ~RecognizedMethods(input)) =>
          error # "none" /\ result = <<>>
    /\ (op = "ColorConverter" /\ error = "none") => RecognizedMethods(result)
    /\ RecognizedMethods(color_converter)

\* The constructor was called with a recognized gamma method and an
\* unrecognized clip method, and raised.
C10_Witness ==
    /\ op = "ColorConverter"
    /\ input.gamma_method = GAMMA_CORRECT_POWER
    /\ input.clip_method \notin {CLIP_CLAMP_TO_ZERO, CLIP_ADD_WHITE}
    /\ error = "ValueError"
----------------------------------------------------------------------------
(* Properties of init().                                                   *)

\* An instance as a constructor call that returned leaves it.
FullyConstructed(instance) ==
    \E args \in InitInputs \cup {DefaultArgs} :
        Construct(args) = [err |-> "none", self |-> instance]

\* The thread whose statement replaces the default converter.
Installs(t) ==
    /\ constructing[t].pc = "assign"
    /\ constructing'[t].pc = "returned"
    /\ Construct(constructing[t].args) =
           [err |-> "none", self |-> color_converter']

\* C11: the default converter is replaced wholesale.  Every step of every
\* init() call, interleaved with other init() calls and with readers, leaves
\* the default converter either as it was or replaced by the instance the
\* constructor of that call returned, so that it is a fully constructed
\* instance at every step; and the step at which an init() call raises a
\* configuration error (unrecognized gamma or clip method, singular phosphor
\* matrix) leaves the default converter as it was.
C11_ReplacedWholesale ==
    [][/\ color_converter' # color_converter
            => /\ \E t \in Threads : Installs(t)
               /\ FullyConstructed(color_converter')
       /\ \A t \in Threads :
            (constructing[t].pc # "raised" /\ constructing'[t].pc = "raised")
                => /\ color_converter' = color_converter
                   /\ Construct(constructing[t].args).err
                          = constructing'[t].err
                   /\ constructing'[t].err \in {"ValueError", "LinAlgError"}
      ]_vars

\* One init() call has raised and another is halfway through its constructor,
\* after an earlier call replaced the default converter and while a reader
\* converts with it.
C11_Witness ==
    /\ \E t \in Threads : constructing[t].pc = "raised"
    /\ \E t \in Threads : constructing[t].pc = "init_clipping"
    /\ color_converter # Construct(DefaultArgs).self
    /\ op = "rgb_from_xyz"
    /\ result = rgb_from_xyz(color_converter, input)

----------------------------------------------------------------------------
(* Properties of brightest_rgb_from_xyz.                                   *)

Brightened == op = "brightest_rgb_from_xyz"

\* rgb_from_xyz (xyz) for the xyz of the last call
LinearRgb == rgb_from_xyz(color_converter, input[1])

\* a is b times a factor: the channels keep their ratios.
Proportional(a, b) ==
    \A i, j \in 1..3 : Close(FMul(a[i], b[j]), FMul(a[j], b[i]))

\* C12, as the specification states it: whenever the linear rgb of xyz is
\* not black, the largest channel of brightest_rgb_from_xyz (xyz,
\* max_component) is max_component and the result is a uniform scaling of
\* rgb_from_xyz (xyz).
C12_BrightestOfNonBlack ==
    (Brightened /\ LinearRgb # Black)
        => /\ error = "none"
           /\ Close(Max3(result), input[2])
           /\ Proportional(result, LinearRgb)

\* C12, amended: whenever the largest channel of the linear rgb of xyz is
\* positive (and max_component is positive), the largest channel of
\* brightest_rgb_from_xyz (xyz, max_component) is max_component and the result
\* is a uniform scaling of rgb_from_xyz (xyz).
C12_BrightestOfPositive ==
    (Brightened /\ FGt(Max3(LinearRgb), Zero) /\ FGt(input[2], Zero))
        => /\ error = "none"
           /\ Close(Max3(result), input[2])
           /\ Proportional(result, LinearRgb)

\* A colour brightened to the ceiling 1/2: its channels are not those of
\* rgb_from_xyz (xyz), they are not all equal, and one was negative.
C12_Witness ==
    /\ Brightened
    /\ FGt(Max3(LinearRgb), Zero)
    /\ input[2] = Lit(1, 2)
    /\ result # LinearRgb
    /\ result[1] # result[2]
    /\ HasNegative(LinearRgb)

\* C13, as the specification states it: when the largest channel of
\* rgb_from_xyz (xyz) is at or below max_component, brightest_rgb_from_xyz
\* returns rgb_from_xyz (xyz) unchanged, without a division by zero.
C13_NoOpBelowCeiling ==
    (Brightened /\ FLe(Max3(LinearRgb), input[2]))
        => /\ error = "none"
           /\ result = LinearRgb

\* C13, amended: brightest_rgb_from_xyz returns rgb_from_xyz (xyz) unchanged
\* when its largest channel is zero, pure black included, and then divides by
\* nothing; a colour whose largest channel is positive and below
\* max_component is not returned unchanged but scaled up to max_component.
C13_NoOpAtZero ==
    /\ (Brightened /\ Max3(LinearRgb) = Zero)
         => /\ error = "none"
            /\ result = LinearRgb
    /\ (Brightened /\ FGt(Max3(LinearRgb), Zero)
           /\ FLt(Max3(LinearRgb), FMul(Lit(99, 100), input[2])))
         => /\ error = "none"
            /\ result # LinearRgb
            /\ Close(Max3(result), input[2])

\* Pure black was brightened, on a device other than the default one.
C13_Witness ==
    /\ Brightened
    /\ LinearRgb = Black
    /\ result = Black
    /\ color_converter.PhosphorRed = SMPTE_Red

----------------------------------------------------------------------------
(* Properties of the Luv and Lab conversions.                              *)

\* The v' that xyz_from_luv recovers from the luv of the last call.
RecoveredVPrime ==
    FAdd(color_converter.reference_v_prime,
         FDiv(input[3], FMul(FromInt(13), input[1])))

\* C14: black is a defined singular point of the Luv conversion.
\* luv_from_xyz ((0,0,0)) is (0,0,0); xyz_from_luv is exactly (0,0,0) for
\* every Luv with L = 0, whatever u and v are; and no call of luv_from_xyz or
\* xyz_from_luv divides by zero, whether y = 0, x + 15y + 3z = 0 or the
\* recovered v' is 0.
C14_BlackIsSingularPoint ==
    /\ (op = "luv_from_xyz" /\ input = xyz_color(Zero, Zero, Zero))
         => result = luv_color(Zero, Zero, Zero)
    /\ (op = "xyz_from_luv" /\ input[1] = Zero)
         => result = xyz_color(Zero, Zero, Zero)
    /\ op \in {"luv_from_xyz", "xyz_from_luv"} => error = "none"

\* xyz_from_luv was called with a lightness other than 0 and a v that makes
\* the recovered v' exactly 0.
C14_Witness ==
    /\ op = "xyz_from_luv"
    /\ input[1] # Zero
    /\ RecoveredVPrime = Zero
    /\ result = xyz_color(Zero, Zero, Zero)
    /\ error = "none"

\* The last call converted back the Luv or Lab of an xyz of positive y.
BackFromLuv == op = "xyz_from_luv" /\ origin # <<>> /\ FGt(origin[2], Zero)
BackFromLab == op = "xyz_from_lab" /\ origin # <<>> /\ FGt(origin[2], Zero)

----------------------------------------------------------------------------
(* Properties of the rgb <-> xyz basis.                                    *)

Magnitude(v) == FMax(FAbs(v[1]), FMax(FAbs(v[2]), FAbs(v[3])))

\* The vectors a and b agree up to the rounding of the matrix products:
\* every component within 10^-5 of the magnitude of b.
NearVector(a, b) ==
    \A i \in 1..3 :
        FLe(FAbs(FSub(a[i], b[i])), FMul(Lit(1, 100000), Magnitude(b)))

UnitVectors ==
    {<<One, Zero, Zero>>, <<Zero, One, Zero>>, <<Zero, Zero, One>>}

MutuallyInverse(self) ==
    \A e \in UnitVectors :
        /\ NearVector(xyz_from_rgb(self, rgb_from_xyz(self, e)), e)
        /\ NearVector(rgb_from_xyz(self, xyz_from_rgb(self, e)), e)

Calibrated(self) ==
    PhosphorsAssigned(self) = [err |-> "none", self |-> self]

\* The white point of the converter scaled to Y = 1.
NormalizedWhite == xyz_normalize_Y1(color_converter.PhosphorWhite)

NeutralWhite(max_value) == irgb_color(max_value, max_value, max_value)

\* C16: full-strength rgb is the white point.  For a converter built with the
\* white point W, xyz_from_rgb ((1,1,1)) is W scaled to Y = 1, rgb_from_xyz of
\* that white is (1,1,1), and irgb_from_xyz of it is neutral white: the three
\* channels at max_value.
C16_WhiteIsFullStrength ==
    /\ (op = "xyz_from_rgb" /\ input = White /\ Calibrated(color_converter))
         => NearVector(result, NormalizedWhite)
    /\ (op = "rgb_from_xyz" /\ input = NormalizedWhite
           /\ Calibrated(color_converter))
         => NearVector(result, White)
    /\ (op = "irgb_from_xyz" /\ input = NormalizedWhite
           /\ Calibrated(color_converter))
         => /\ error = "none"
            /\ result = NeutralWhite(color_converter.max_value)

\* irgb_from_xyz of the D65 white gave (255, 255, 255) on the default
\* converter.
C16_Witness ==
    /\ op = "irgb_from_xyz"
    /\ input = xyz_normalize_Y1(SRGB_White)
    /\ color_converter = Construct(DefaultArgs).self
    /\ result = irgb_color(255, 255, 255)

----------------------------------------------------------------------------
(* Properties of the sRGB gamma functions.                                 *)

\* C17, as the specification states it: on the unit interval each of
\* srgb_gamma_invert and srgb_gamma_correct undoes the other up to rounding
\* error, also at the breakpoints 0.00304 and 0.03928 and between their
\* images.
C17_SrgbRoundTrip ==
    (op \in {"srgb_gamma_invert", "srgb_gamma_correct"} /\ origin # <<>>)
        => Close(result, origin)

----------------------------------------------------------------------------
(* Round trips through Luv and Lab.                                        *)

\* C18, as the specification states it: for every xyz with y > 0,
\* xyz_from_luv (luv_from_xyz (xyz)) = xyz and
\* xyz_from_lab (lab_from_xyz (xyz)) = xyz up to tolerance, for the reference
\* white of the converter.
C18_RoundTrip ==
    (BackFromLuv \/ BackFromLab)
        => /\ error = "none"
           /\ NearVector(result, origin)

\* C18, amended: for every xyz with y > 0 and x + 15y + 3z # 0,
\* xyz_from_luv (luv_from_xyz (xyz)) = xyz, and for every xyz with y > 0,
\* xyz_from_lab (lab_from_xyz (xyz)) = xyz, up to tolerance, for the reference
\* white of the converter; an xyz with y > 0 and x + 15y + 3z = 0 does not
\* come back from Luv.
C18_RoundTripOffSingularity ==
    /\ (BackFromLuv /\ UvDenominator(origin) # Zero)
         => /\ error = "none"
            /\ NearVector(result, origin)
    /\ (BackFromLuv /\ UvDenominator(origin) = Zero)
         => ~NearVector(result, origin)
    /\ BackFromLab
         => /\ error = "none"
            /\ NearVector(result, origin)

\* A dark colour, below the cutoff of L, came back from Luv on a converter
\* whose reference white is not the white of its rgb basis.
C18_Witness ==
    /\ BackFromLuv
    /\ UvDenominator(origin) # Zero
    /\ FLt(origin[2], L_LUM_CUTOFF)
    /\ color_converter.reference_white
           # xyz_normalize_Y1(color_converter.PhosphorWhite)
    /\ NearVector(result, origin)

----------------------------------------------------------------------------
(* The clamp-to-zero policy.                                               *)

\* C20: clip_color_clamp handles each channel on its own: a channel below 0
\* becomes 0, a channel at or above 0 keeps its value, and the flag returned
\* is true exactly when some channel was negative.
C20_ClampPerChannel ==
    op = "clip_color_clamp"
        => /\ \A k \in 1..3 :
                caller[k] = IF FLt(input[k], Zero) THEN Zero ELSE input[k]
           /\ result = HasNegative(input)

\* A colour with a negative, a zero and a positive channel was clamped: the
\* negative channel became 0 and the positive one is still positive.
C20_Witness ==
    /\ op = "clip_color_clamp"
    /\ \E i, j, k \in 1..3 :
          /\ FLt(input[i], Zero) /\ caller[i] = Zero
          /\ input[j] = Zero /\ caller[j] = Zero
          /\ FGt(input[k], Zero) /\ caller[k] = input[k]
    /\ result = TRUE

----------------------------------------------------------------------------
(* The checks of color_from_refl.                                          *)

\* The call has an argument that color_from_refl must refuse.
Refused(refl, wavelengths, illuminant_name) ==
    \/ illuminant_name # "D65"
    \/ Len(refl) # Len(wavelengths)
    \/ \E i \in 1..Len(refl) : FLt(refl[i], Zero) \/ FGt(refl[i], One)
    \/ \E i \in 1..Len(wavelengths) :
          wavelengths[i] < 360 \/ wavelengths[i] > 830

----------------------------------------------------------------------------
(* The intensity clip.                                                     *)

\* 1 + 0.5/max_value for the converter in use.
CutoffInUse == FAdd(One, FDiv(Lit(1, 2), FromInt(color_converter.max_value)))

\* The values the chromaticity stage of clip_rgb_color leaves.
AfterChromaticity(self, rgb) ==
    IF self.clip_method = CLIP_CLAMP_TO_ZERO
    THEN clip_color_clamp(self, rgb).rgb
    ELSE clip_color_whiten(self, rgb).rgb

\* The intensity clip took before to after and returned flag.
IntensityClipped(before, after, flag, cutoff) ==
    /\ flag = FGt(Max3(before), cutoff)
    /\ flag => /\ after = Scale3(before, FDiv(cutoff, Max3(before)))
               /\ Close(Max3(after), cutoff)
    /\ ~flag => after = before

\* The irgb that gamma inversion and scaling make of the values the
\* intensity clip leaves of chroma.
IrgbAfterIntensity(self, chroma, cutoff) ==
    scale_int_from_float(self,
        gamma_display_from_linear(self,
            IF FGt(Max3(chroma), cutoff)
            THEN Scale3(chroma, FDiv(cutoff, Max3(chroma)))
            ELSE chroma).rgb)

\* C21: the intensity clip is decided on the values the chromaticity clip
\* left and precedes gamma inversion: clipped_intensity is true exactly when
\* their largest channel exceeds 1 + 0.5/max_value; then all three channels
\* are multiplied by (1 + 0.5/max_value)/max, which brings the largest
\* channel to 1 + 0.5/max_value (up to the rounding of the product), and
\* otherwise the channels are unchanged.
C21_IntensityAfterChromaticity ==
    /\ op = "clip_color_intensity"
         => IntensityClipped(input, caller, result, CutoffInUse)
    /\ (op = "clip_rgb_color" /\ error = "none")
         => \E chroma \in {AfterChromaticity(color_converter, input)} :
              /\ result.flags[2] = FGt(Max3(chroma), CutoffInUse)
              /\ result.irgb
                   = IrgbAfterIntensity(color_converter, chroma, CutoffInUse)

\* clip_rgb_color ran both clips on a colour with a negative channel and a
\* channel above the cutoff, at a bit depth above 8.
C21_Witness ==
    /\ op = "clip_rgb_color"
    /\ error = "none"
    /\ color_converter.bit_depth > 8
    /\ HasNegative(input)
    /\ FGt(Max3(input), CutoffInUse)
    /\ result.flags = <<TRUE, TRUE>>

----------------------------------------------------------------------------
(* The construction of a GammaCorrect.                                     *)

\* (1+a)^gamma (gamma-1)^(gamma-1) / (a^(gamma-1) gamma^gamma)
ClosedFormPhi(gamma, a) ==
    FDiv(FMul(FPow(FAdd(One, a), gamma),
              FPow(FSub(GammaFloat(gamma), One), GammaLessOne(gamma))),
         FMul(FPow(a, GammaLessOne(gamma)), FPow(GammaFloat(gamma), gamma)))

\* The instance built with the same gamma and a and another K0 and Phi, if
\* its construction succeeds, is the instance built.
SameAsBuiltWith(edge) ==
    \E r \in {GammaCorrect(input[1], input[2], edge[1], edge[2])} :
        r.err = "none" => r.self = result

\* C22: a GammaCorrect that was built has K0 = a/(gamma - 1), the closed-form
\* Phi (up to rounding) and K0_over_Phi = K0/Phi, whatever K0 and Phi were
\* supplied, so instances built with the same gamma and a are equal; a pass
\* of improve_Phi after the derivation leaves K0 as it is and Phi as it is
\* up to rounding.
C22_SuppliedEdgeDiscarded ==
    /\ (op = "GammaCorrect" /\ error = "none")
         => /\ result.K0 = FDiv(input[2], FSub(GammaFloat(input[1]), One))
            /\ Close(result.Phi, ClosedFormPhi(input[1], input[2]))
            /\ result.K0_over_Phi = FDiv(result.K0, result.Phi)
            /\ \A edge \in SuppliedEdges : SameAsBuiltWith(edge)
    /\ op = "improve_Phi"
         => /\ caller.K0 = input.K0
            /\ Close(caller.Phi, input.Phi)
            /\ caller.K0_over_Phi = FDiv(caller.K0, caller.Phi)

\* The sRGB curve was built with K0 = 1/2 and Phi = 1 supplied; its slope
\* was derived, K0 near 0.0393 and Phi between 12.92 and 12.93, and improve_Phi
\* then ran on it.
C22_Witness ==
    /\ op = "improve_Phi"
    /\ origin = <<Frac(12, 5), Lit(55, 1000), Lit(1, 2), One>>
    /\ input.Phi = ClosedFormPhi(input.gamma, input.a)
    /\ Close(input.K0, Lit(392857, 10000000))
    /\ FGt(input.Phi, Lit(1292, 100))
    /\ FLt(input.Phi, Lit(1293, 100))
    /\ Close(caller.Phi, input.Phi)

----------------------------------------------------------------------------
(* The derived state of the converter.                                     *)

\* The fields derived from others agree with them, and the methods are ones
\* the conversions know.
Consistent(self) ==
    /\ self.max_value = 2^(self.bit_depth) - 1
    /\ self.gamma_method \in {GAMMA_CORRECT_POWER, GAMMA_CORRECT_SRGB}
    /\ self.clip_method \in {CLIP_CLAMP_TO_ZERO, CLIP_ADD_WHITE}
    /\ <<self.reference_u_prime, self.reference_v_prime>>
          = uv_primes(self.reference_white).uv

\* The step is an init_gamma_correction or init_clipping call that raised.
MethodRejected ==
    /\ op' \in {"init_gamma_correction", "init_clipping"}
    /\ error' # "none"

----------------------------------------------------------------------------
(* Conversions as pure functions.                                          *)

PureOperations ==
    {"rgb_from_xyz", "xyz_from_rgb", "luv_from_xyz", "xyz_from_luv",
     "lab_from_xyz", "xyz_from_lab", "rgb_from_irgb",
     "brightest_rgb_from_xyz", "irgb_string_from_irgb",
     "irgb_string_from_rgb"}

\* C24, as the specification states it: a conversion changes neither the
\* converter nor the vector its caller passed; irgb_string_from_irgb leaves
\* the caller's irgb as it was also when a channel lies outside [0, 255].
C24_ConversionsArePure ==
    [][op' \in PureOperations
          => /\ caller' = input'
             /\ color_converter' = color_converter]_vars

----------------------------------------------------------------------------
(* L = 0.                                                                  *)

\* luv_from_xyz or lab_from_xyz returned a colour.
LightnessReturned ==
    op \in {"luv_from_xyz", "lab_from_xyz"} /\ error = "none"

\* C25, as the specification states it: the L returned by luv_from_xyz and by
\* lab_from_xyz is 0 if and only if the xyz is (0, 0, 0).
C25_ZeroLightnessIsBlack ==
    LightnessReturned
        => (result[1] = Zero <=> input = xyz_color(Zero, Zero, Zero))

\* C25, amended: the L returned by luv_from_xyz and by lab_from_xyz is 0 if
\* and only if y = 0; black has L = 0, and so has every other xyz with
\* y = 0.
C25_ZeroLightnessIsZeroY ==
    LightnessReturned => (result[1] = Zero <=> input[2] = Zero)

\* lab_from_xyz returned L = 0 for (1, 0, 0), which is not black.
C25_Witness ==
    /\ op = "lab_from_xyz"
    /\ error = "none"
    /\ input = xyz_color(One, Zero, Zero)
    /\ result[1] = Zero

----------------------------------------------------------------------------
(* The spectrum color_from_refl integrates.                                *)

\* C26, as the specification states it: when color_from_refl accepts a call,
\* the spectrum it hands to the integration has one row per wavelength
\* passed, and the row of a wavelength holds the reflectance the caller gave
\* for that wavelength (times the illuminant's power there), also when the
\* wavelengths are not in ascending order.
C26_SpectrumAligned ==
    (op = "color_from_refl" /\ error = "none")
        => /\ Len(origin) = Len(input[2])
           /\ \A i \in 1..Len(input[2]) :
                \E j \in 1..Len(origin) :
                    origin[j] = <<input[2][i], input[1][i]>>

====
